---- MODULE Spec2Model ----
(***************************************************************************)
(* LangGraph -> CopilotKit event translation (langgraph-service-adapter).  *)
(*                                                                         *)
(* Nine specifications share the variables below:                          *)
(*   Spec        handleLangGraphEvent called directly on one Run State     *)
(*               (correlation-map handler, src/src/utils.ts 83-391)        *)
(*   SpecAdapter LangGraphServiceAdapter.processLangGraphStream            *)
(*               (src/src/langgraph-adapter.ts 102-222)                    *)
(*   SpecSink    the RuntimeEventSubject on its own                        *)
(*               (src/unnamed/part_002 106-253)                            *)
(*   SpecConcurrent  two processLangGraphStream invocations of one adapter *)
(*               whose steps interleave at their await points              *)
(*   SpecProcess LangGraphServiceAdapter.process and the callback it       *)
(*               registers (src/src/langgraph-adapter.ts 47-100)           *)
(*   SpecFlags   handleLangGraphEvent with the emit flags of the run and   *)
(*               of each event ranging over true, false and absent         *)
(*   SpecTools   handleLangGraphEvent on tool and node events of every     *)
(*               input and output shape                                    *)
(*   SpecMode    handleLangGraphEvent of the mode-based handler            *)
(*               (mode / idInProgress, src/src/utils.ts 881-1142)          *)
(*   SpecToken   handleLangGraphEvent of the token-level handler           *)
(*               (messagesInProgress, src/src/utils.ts 451-807)            *)
(*                                                                         *)
(* JavaScript values are encoded as follows.  A string-or-undefined value  *)
(* is a TLA+ string, UNDEFINED standing for undefined.  A boolean-or-      *)
(* undefined metadata flag is one of "true", "false", UNDEFINED.  Message  *)
(* content, tool input and tool output are small records (see the         *)
(* constructors below).  Strings put through JSON.stringify contain no     *)
(* character that JSON would escape.                                       *)
(***************************************************************************)
EXTENDS Integers, Sequences, FiniteSets, TLC

VARIABLES
    streamState,    \* the Run State (StreamState) of the run
    metadata,       \* the metadata argument passed to handleLangGraphEvent
    uuidCount,      \* number of randomUUID() calls made so far
    handled,        \* history: upstream events handled so far, in order
    emitted,        \* history: every event pushed to the sink (next calls)
    origin,         \* history: origin[i] = index in handled of the event
                    \*          being handled when emitted[i] was pushed
    raised,         \* history: raised[k] = handling handled[k] threw inside
                    \*          the try block of handleLangGraphEvent
    isStopped,      \* sink: completed (rxjs Subject.isStopped)
    buffer,         \* sink: events delivered to subscribers / replay buffer
    completeNotified, \* sink: completion notifications delivered
    pc,             \* position of processLangGraphStream / of the driver
    config,         \* LangGraphServiceAdapterConfig (metadata) and opts
    pendingError,   \* error caught by processLangGraphStream, or UNDEFINED
    outcome,        \* settlement of the processLangGraphStream promise
    completeCalls,  \* number of complete() calls made by the adapter
    runs,           \* the processLangGraphStream invocations running
                    \* concurrently on one adapter, each with its own sink
    before,         \* history: before[k] = the Run State when the handling
                    \*          of handled[k] began
    processCall     \* one call of LangGraphServiceAdapter.process: its
                    \* request, what it computed, registered and returned,
                    \* and the agent invocations made for it

vars == <<streamState, metadata, uuidCount, handled, emitted, origin, raised,
          isStopped, buffer, completeNotified, pc, config, pendingError,
          outcome, completeCalls, runs, before, processCall>>

----------------------------------------------------------------------------
(* Bounds *)

MaxEvents == 3      \* upstream events handled in one direct-call run
MaxStreamLen == 2   \* upstream events yielded by the agent stream
MaxSinkOps == 3     \* operations applied to a sink on its own

----------------------------------------------------------------------------
(* JavaScript value helpers *)

UNDEFINED == "<undefined>"

\* JS truthiness of a string-or-undefined value
Truthy(s) == s # UNDEFINED /\ s # ""

\* a || b on string-or-undefined values
OrElse(a, b) == IF Truthy(a) THEN a ELSE b

\* randomUUID(): the n-th identifier generated in this run
randomUUID(n) == "uuid-" \o ToString(n)

\* START sentinel of @langchain/langgraph
START == "__start__"

Quote(s) == "\"" \o s \o "\""

\* --- message content (MessageContent) ---
\* kind "undefined", "string" (str), "array" (parts), "cyclic" (an array
\* that JSON.stringify rejects)
NoContent == [kind |-> "undefined", str |-> "", parts |-> <<>>]
StrContent(s) == [kind |-> "string", str |-> s, parts |-> <<>>]
ArrContent(ps) == [kind |-> "array", str |-> "", parts |-> ps]
CyclicContent == [kind |-> "cyclic", str |-> "", parts |-> <<>>]
TextPart(t) == [type |-> "text", text |-> t]
ImagePart == [type |-> "image_url", text |-> UNDEFINED]

\* --- plain objects (tool input, tool-call args) ---
\* kind "undefined", "string" (str), "object" (fields: sequence of
\* <<key, value>>, value = [type |-> "string" | "number", raw |-> text]),
\* "cyclic" (an object that JSON.stringify rejects)
NoValue == [kind |-> "undefined", str |-> "", fields |-> <<>>]
StrValue(s) == [kind |-> "string", str |-> s, fields |-> <<>>]
ObjValue(fs) == [kind |-> "object", str |-> "", fields |-> fs]
CyclicValue == [kind |-> "cyclic", str |-> "", fields |-> <<>>]
SField(v) == [type |-> "string", raw |-> v]
NField(v) == [type |-> "number", raw |-> v]

RECURSIVE JoinComma(_)
JoinComma(ss) ==
    IF ss = <<>> THEN ""
    ELSE IF Len(ss) = 1 THEN ss[1]
    ELSE ss[1] \o "," \o JoinComma(Tail(ss))

JSONField(v) == IF v.type = "string" THEN Quote(v.raw) ELSE v.raw

\* JSON.stringify of a plain object; ok = FALSE when it throws
JSONStringifyObject(v) ==
    IF v.kind = "cyclic" THEN [ok |-> FALSE, text |-> ""]
    ELSE [ok |-> TRUE,
          text |-> "{" \o JoinComma([i \in 1..Len(v.fields) |->
                       Quote(v.fields[i][1]) \o ":" \o JSONField(v.fields[i][2])])
                   \o "}"]

JSONPart(p) ==
    IF p.text = UNDEFINED THEN "{" \o Quote("type") \o ":" \o Quote(p.type) \o "}"
    ELSE "{" \o Quote("type") \o ":" \o Quote(p.type) \o ","
             \o Quote("text") \o ":" \o Quote(p.text) \o "}"

\* JSON.stringify of a non-string message content; ok = FALSE when it throws
JSONStringifyContent(c) ==
    IF c.kind = "cyclic" THEN [ok |-> FALSE, text |-> ""]
    ELSE [ok |-> TRUE,
          text |-> "[" \o JoinComma([i \in 1..Len(c.parts) |-> JSONPart(c.parts[i])])
                   \o "]"]

----------------------------------------------------------------------------
(* Emission Sink: RuntimeEventSubject (a ReplaySubject of RuntimeEvent) *)

\* mutant: next does not check that the subject is stopped
SubjectNext_Unchecked(stopped, buf, evs) == buf \o evs

\* ReplaySubject.next: a stopped subject drops the value, otherwise the
\* value is buffered and delivered
SubjectNext(stopped, buf, evs) == IF stopped THEN buf ELSE buf \o evs

\* ReplaySubject.complete: a stopped subject ignores the call, otherwise
\* subscribers are notified once
SubjectComplete(stopped, notified) == IF stopped THEN notified ELSE notified + 1

\* ResultMessage.encodeResult(result, error)
encodeResult(result, error) ==
    IF error # UNDEFINED
    THEN "{" \o Quote("error") \o ":" \o Quote(error) \o ","
             \o Quote("result") \o ":" \o Quote(IF result = UNDEFINED THEN "" ELSE result) \o "}"
    ELSE IF result = UNDEFINED THEN "" ELSE result

sendTextMessageStart(messageId, parentMessageId) ==
    <<[type |-> "TextMessageStart", messageId |-> messageId,
       parentMessageId |-> parentMessageId]>>

sendTextMessageContent(messageId, content) ==
    <<[type |-> "TextMessageContent", messageId |-> messageId,
       content |-> content]>>

sendTextMessageEnd(messageId) ==
    <<[type |-> "TextMessageEnd", messageId |-> messageId]>>

\* mutant: the whole-message helper leaves the text span open
sendTextMessage_NoEnd(messageId, content) ==
    sendTextMessageStart(messageId, UNDEFINED)
        \o sendTextMessageContent(messageId, content)

sendTextMessage(messageId, content) ==
    sendTextMessageStart(messageId, UNDEFINED)
        \o sendTextMessageContent(messageId, content)
        \o sendTextMessageEnd(messageId)

sendActionExecutionStart(actionExecutionId, actionName, parentMessageId) ==
    <<[type |-> "ActionExecutionStart", actionExecutionId |-> actionExecutionId,
       actionName |-> actionName, parentMessageId |-> parentMessageId]>>

sendActionExecutionArgs(actionExecutionId, args) ==
    <<[type |-> "ActionExecutionArgs", actionExecutionId |-> actionExecutionId,
       args |-> args]>>

sendActionExecutionEnd(actionExecutionId) ==
    <<[type |-> "ActionExecutionEnd", actionExecutionId |-> actionExecutionId]>>

sendActionExecution(actionExecutionId, actionName, args, parentMessageId) ==
    sendActionExecutionStart(actionExecutionId, actionName, parentMessageId)
        \o sendActionExecutionArgs(actionExecutionId, args)
        \o sendActionExecutionEnd(actionExecutionId)

sendActionExecutionResult(actionExecutionId, actionName, result) ==
    <<[type |-> "ActionExecutionResult", actionName |-> actionName,
       actionExecutionId |-> actionExecutionId,
       result |-> encodeResult(result, UNDEFINED)]>>

\* convertServiceAdapterError(error, "LangGraph") of @copilotkit/runtime
convertServiceAdapterError(error) ==
    [name |-> "CopilotKitLowLevelError", message |-> "LangGraph: " \o error]

\* no error object
NoError == [name |-> UNDEFINED, message |-> UNDEFINED]

RunError(error) ==
    <<[type |-> "RunError", message |-> convertServiceAdapterError(error).message,
       code |-> "LANGGRAPH_EVENT_ERROR"]>>

----------------------------------------------------------------------------
(* Upstream events (StreamEvent) *)

\* chunk / output payloads: type "undefined", "message" (AIMessageChunk,
\* AIMessage, ToolMessage) or "string" (a bare string output)
NoMsg == [type |-> "undefined", id |-> UNDEFINED, finish_reason |-> UNDEFINED,
          content |-> NoContent, hasToolCalls |-> FALSE, tool_calls |-> <<>>]
Msg(id, finish, content) ==
    [type |-> "message", id |-> id, finish_reason |-> finish,
     content |-> content, hasToolCalls |-> FALSE, tool_calls |-> <<>>]
MsgWithToolCalls(id, content, calls) ==
    [type |-> "message", id |-> id, finish_reason |-> UNDEFINED,
     content |-> content, hasToolCalls |-> TRUE, tool_calls |-> calls]
StrOutput(s) ==
    [type |-> "string", id |-> UNDEFINED, finish_reason |-> UNDEFINED,
     content |-> StrContent(s), hasToolCalls |-> FALSE, tool_calls |-> <<>>]
ToolCall(name, id, args) == [name |-> name, id |-> id, args |-> args]

\* property reads on a payload; a bare string has none of these properties
MsgId(m) == IF m.type = "message" THEN m.id ELSE UNDEFINED
MsgFinish(m) == IF m.type = "message" THEN m.finish_reason ELSE UNDEFINED
MsgContent(m) == IF m.type = "message" THEN m.content ELSE NoContent

NoData == [defined |-> FALSE, chunk |-> NoMsg, output |-> NoMsg, input |-> NoValue]
ChunkData(c) == [defined |-> TRUE, chunk |-> c, output |-> NoMsg, input |-> NoValue]
OutputData(o) == [defined |-> TRUE, chunk |-> NoMsg, output |-> o, input |-> NoValue]
InputData(i) == [defined |-> TRUE, chunk |-> NoMsg, output |-> NoMsg, input |-> i]

Event(kind, runId, name, emitMessages, emitToolCalls, node, data) ==
    [event |-> kind, run_id |-> runId, name |-> name,
     emitMessages |-> emitMessages, emitToolCalls |-> emitToolCalls,
     langgraph_node |-> node, data |-> data]

\* the metadata argument of handleLangGraphEvent
NoMetadata == [defined |-> FALSE, emitMessages |-> UNDEFINED, emitToolCalls |-> UNDEFINED]
Metadata(emitMessages, emitToolCalls) ==
    [defined |-> TRUE, emitMessages |-> emitMessages, emitToolCalls |-> emitToolCalls]

----------------------------------------------------------------------------
(* Run State and the correlation-map handlers (src/src/utils.ts 83-391) *)

createStreamState(runId, frontendActions, n) ==
    [state |-> [runId |-> IF Truthy(runId) THEN runId ELSE randomUUID(n + 1),
                assistantMessageId |-> UNDEFINED,
                currentNodeName |-> UNDEFINED,
                toolRunIdToActionId |-> <<>>,
                frontendActions |-> frontendActions],
     uuid |-> IF Truthy(runId) THEN n ELSE n + 1]

\* Map.get / Map.set on toolRunIdToActionId (a function on its key set)
MapGet(m, k) == IF k \in DOMAIN m THEN m[k] ELSE UNDEFINED
MapSet(m, k, v) == [x \in (DOMAIN m) \cup {k} |-> IF x = k THEN v ELSE m[x]]

\* mutant: the run metadata is consulted before the event's own metadata
Nullish_RunFirst(a, b) == IF b # UNDEFINED THEN b = "true"
                          ELSE IF a # UNDEFINED THEN a = "true" ELSE TRUE

\* a ?? b ?? true on metadata flags
Nullish(a, b) == IF a # UNDEFINED THEN a = "true"
                 ELSE IF b # UNDEFINED THEN b = "true" ELSE TRUE

getShouldEmitMessagesFromMetadata(event, md) ==
    Nullish(event.emitMessages, IF md.defined THEN md.emitMessages ELSE UNDEFINED)

getShouldEmitToolCallsFromMetadata(event, md) ==
    Nullish(event.emitToolCalls, IF md.defined THEN md.emitToolCalls ELSE UNDEFINED)

\* index of the first text-typed part that has a text property, 0 if none
RECURSIVE FindTextPart(_, _)
FindTextPart(parts, i) ==
    IF i > Len(parts) THEN 0
    ELSE IF parts[i].type = "text" /\ parts[i].text # UNDEFINED THEN i
    ELSE FindTextPart(parts, i + 1)

\* mutant: content without a text part is converted to a string instead of null
resolveMessageContent_Stringify(content) ==
    IF content.kind = "undefined" THEN "undefined"
    ELSE IF content.kind = "string" THEN content.str
    ELSE IF content.kind = "array" /\ FindTextPart(content.parts, 1) # 0
         THEN content.parts[FindTextPart(content.parts, 1)].text
    ELSE "[object Object]"

\* resolveMessageContent: the text, or UNDEFINED for null
resolveMessageContent(content) ==
    IF content.kind = "undefined" THEN UNDEFINED
    ELSE IF content.kind = "string"
         THEN IF content.str = "" THEN UNDEFINED ELSE content.str
    ELSE IF content.kind = "array" /\ Len(content.parts) > 0
         THEN LET i == FindTextPart(content.parts, 1)
              IN IF i = 0 THEN UNDEFINED ELSE content.parts[i].text
    ELSE UNDEFINED

\* result of a handler: new Run State, events pushed to the sink, new UUID
\* count, and the exception thrown (UNDEFINED when it returns normally)
Ret(st, out, n) == [state |-> st, out |-> out, uuid |-> n, error |-> UNDEFINED]
Throw(st, out, n, err) == [state |-> st, out |-> out, uuid |-> n, error |-> err]

\* mutant: the finish marker is not looked at, a finishing chunk's text is emitted
handleChatModelStream_IgnoresFinish(event, st, md, n) ==
    LET chunk == IF event.data.defined THEN event.data.chunk ELSE NoMsg
        messageContent == resolveMessageContent(MsgContent(chunk))
        fresh == ~Truthy(st.assistantMessageId) /\ ~Truthy(MsgId(chunk))
        messageId == IF Truthy(st.assistantMessageId) THEN st.assistantMessageId
                     ELSE IF Truthy(MsgId(chunk)) THEN MsgId(chunk)
                     ELSE randomUUID(n + 1)
        n1 == IF fresh THEN n + 1 ELSE n
    IN  IF ~getShouldEmitMessagesFromMetadata(event, md) THEN Ret(st, <<>>, n)
        ELSE IF chunk.type = "undefined"
             THEN Throw(st, <<>>, n, "TypeError: chunk is undefined")
        ELSE IF ~Truthy(messageContent) THEN Ret(st, <<>>, n1)
        ELSE IF ~Truthy(st.assistantMessageId)
             THEN Ret([st EXCEPT !.assistantMessageId = messageId],
                      sendTextMessageStart(messageId, UNDEFINED)
                          \o sendTextMessageContent(messageId, messageContent),
                      n1)
        ELSE Ret(st, sendTextMessageContent(st.assistantMessageId, messageContent), n1)

\* mutant: the open text span is not recorded, every chunk opens a span
handleChatModelStream_AlwaysStart(event, st, md, n) ==
    LET chunk == IF event.data.defined THEN event.data.chunk ELSE NoMsg
        messageContent == resolveMessageContent(MsgContent(chunk))
        fresh == ~Truthy(MsgId(chunk))
        messageId == IF Truthy(MsgId(chunk)) THEN MsgId(chunk) ELSE randomUUID(n + 1)
        n1 == IF fresh THEN n + 1 ELSE n
    IN  IF ~getShouldEmitMessagesFromMetadata(event, md) THEN Ret(st, <<>>, n)
        ELSE IF chunk.type = "undefined"
             THEN Throw(st, <<>>, n, "TypeError: chunk is undefined")
        ELSE IF Truthy(MsgFinish(chunk)) THEN Ret(st, <<>>, n)
        ELSE IF ~Truthy(messageContent) THEN Ret(st, <<>>, n1)
        ELSE Ret([st EXCEPT !.assistantMessageId = messageId],
                 sendTextMessageStart(messageId, UNDEFINED)
                     \o sendTextMessageContent(messageId, messageContent),
                 n1)

handleChatModelStream(event, st, md, n) ==
    LET chunk == IF event.data.defined THEN event.data.chunk ELSE NoMsg
        messageContent == resolveMessageContent(MsgContent(chunk))
        fresh == ~Truthy(st.assistantMessageId) /\ ~Truthy(MsgId(chunk))
        messageId == IF Truthy(st.assistantMessageId) THEN st.assistantMessageId
                     ELSE IF Truthy(MsgId(chunk)) THEN MsgId(chunk)
                     ELSE randomUUID(n + 1)
        n1 == IF fresh THEN n + 1 ELSE n
    IN  IF ~getShouldEmitMessagesFromMetadata(event, md) THEN Ret(st, <<>>, n)
        ELSE IF chunk.type = "undefined"
             THEN Throw(st, <<>>, n, "TypeError: chunk is undefined")
        ELSE IF Truthy(MsgFinish(chunk)) THEN Ret(st, <<>>, n)
        ELSE IF ~Truthy(messageContent) THEN Ret(st, <<>>, n1)
        ELSE IF ~Truthy(st.assistantMessageId)
             THEN Ret([st EXCEPT !.assistantMessageId = messageId],
                      sendTextMessageStart(messageId, UNDEFINED)
                          \o sendTextMessageContent(messageId, messageContent),
                      n1)
        ELSE Ret(st, sendTextMessageContent(st.assistantMessageId, messageContent), n1)

\* the forEach over aiMessage.tool_calls, from index i on
RECURSIVE EmitToolCalls(_, _, _, _, _)
EmitToolCalls(calls, i, st, out, n) ==
    IF i > Len(calls) THEN Ret(st, out, n)
    ELSE LET toolCall == calls[i]
             fresh == ~Truthy(toolCall.id)
             n1 == IF fresh THEN n + 1 ELSE n
             id == IF fresh THEN randomUUID(n + 1) ELSE toolCall.id
             json == IF toolCall.args.kind = "undefined"
                     THEN [ok |-> TRUE, text |-> "{}"]
                     ELSE JSONStringifyObject(toolCall.args)
         IN  IF ~(Truthy(toolCall.name)
                  /\ \E k \in 1..Len(st.frontendActions) :
                         st.frontendActions[k] = toolCall.name)
             THEN EmitToolCalls(calls, i + 1, st, out, n)
             ELSE IF ~json.ok
                  THEN Throw(st, out, n1, "TypeError: cyclic object value")
             ELSE EmitToolCalls(calls, i + 1, st,
                      out \o sendActionExecution(id, toolCall.name, json.text, UNDEFINED),
                      n1)

\* mutant: TextMessageEnd is emitted but the open text span marker is kept
handleChatModelEnd_KeepsMarker(event, st, md, n) ==
    LET shouldEmitMessage == getShouldEmitMessagesFromMetadata(event, md)
        shouldEmitToolCalls == getShouldEmitToolCallsFromMetadata(event, md)
        aiMessage == event.data.output
        open == Truthy(st.assistantMessageId)
        messageContent == resolveMessageContent(MsgContent(aiMessage))
        fresh == shouldEmitMessage /\ ~open /\ ~Truthy(MsgId(aiMessage))
        messageId == IF fresh THEN randomUUID(n + 1) ELSE MsgId(aiMessage)
        n1 == IF fresh THEN n + 1 ELSE n
        out1 == IF ~shouldEmitMessage THEN <<>>
                ELSE IF open THEN sendTextMessageEnd(st.assistantMessageId)
                ELSE IF Truthy(messageContent)
                     THEN sendTextMessage(messageId, messageContent)
                ELSE <<>>
    IN  IF ~event.data.defined
        THEN Throw(st, <<>>, n, "TypeError: data is undefined")
        ELSE IF aiMessage.type = "undefined"
             THEN IF shouldEmitMessage /\ open
                  THEN Throw(st, out1, n, "TypeError: output is undefined")
                  ELSE Throw(st, <<>>, n, "TypeError: output is undefined")
        ELSE IF shouldEmitToolCalls /\ aiMessage.type = "message" /\ aiMessage.hasToolCalls
             THEN EmitToolCalls(aiMessage.tool_calls, 1, st, out1, n1)
        ELSE Ret(st, out1, n1)

handleChatModelEnd(event, st, md, n) ==
    LET shouldEmitMessage == getShouldEmitMessagesFromMetadata(event, md)
        shouldEmitToolCalls == getShouldEmitToolCallsFromMetadata(event, md)
        aiMessage == event.data.output
        open == Truthy(st.assistantMessageId)
        messageContent == resolveMessageContent(MsgContent(aiMessage))
        fresh == shouldEmitMessage /\ ~open /\ ~Truthy(MsgId(aiMessage))
        messageId == IF fresh THEN randomUUID(n + 1) ELSE MsgId(aiMessage)
        n1 == IF fresh THEN n + 1 ELSE n
        \* the text part (lines 215-229)
        st1 == IF shouldEmitMessage /\ open
               THEN [st EXCEPT !.assistantMessageId = UNDEFINED] ELSE st
        out1 == IF ~shouldEmitMessage THEN <<>>
                ELSE IF open THEN sendTextMessageEnd(st.assistantMessageId)
                ELSE IF Truthy(messageContent)
                     THEN sendTextMessage(messageId, messageContent)
                ELSE <<>>
    IN  IF ~event.data.defined
        THEN Throw(st, <<>>, n, "TypeError: data is undefined")
        ELSE IF aiMessage.type = "undefined"
             THEN IF shouldEmitMessage /\ open
                  THEN Throw(st1, out1, n, "TypeError: output is undefined")
                  ELSE Throw(st, <<>>, n, "TypeError: output is undefined")
        ELSE IF shouldEmitToolCalls /\ aiMessage.type = "message" /\ aiMessage.hasToolCalls
             THEN EmitToolCalls(aiMessage.tool_calls, 1, st1, out1, n1)
        ELSE Ret(st1, out1, n1)

\* mutant: the node label is recorded whatever it is
handleChainStart_AnyLabel(event, st, n) ==
    Ret([st EXCEPT !.currentNodeName = event.langgraph_node], <<>>, n)

handleChainStart(event, st, n) ==
    IF Truthy(event.langgraph_node) /\ event.langgraph_node # START
    THEN Ret([st EXCEPT !.currentNodeName = event.langgraph_node], <<>>, n)
    ELSE Ret(st, <<>>, n)

\* index of the field named "input" holding a string, 0 if none
RECURSIVE FindInputField(_, _)
FindInputField(fields, i) ==
    IF i > Len(fields) THEN 0
    ELSE IF fields[i][1] = "input" THEN (IF fields[i][2].type = "string" THEN i ELSE 0)
    ELSE FindInputField(fields, i + 1)

\* mutant: the 'input' field is not looked at, objects are always serialized
ToolArgs_AlwaysJSON(inputAny) ==
    IF inputAny.kind = "string" THEN inputAny.str
    ELSE IF inputAny.kind = "object" THEN JSONStringifyObject(inputAny).text
    ELSE ""

\* argsStr of handleToolStart (lines 286-301)
ToolArgs(inputAny) ==
    IF inputAny.kind = "string" THEN inputAny.str
    ELSE IF inputAny.kind = "object"
         THEN LET i == FindInputField(inputAny.fields, 1)
              IN IF i # 0 THEN inputAny.fields[i][2].raw
                 ELSE IF JSONStringifyObject(inputAny).ok
                      THEN JSONStringifyObject(inputAny).text
                 ELSE ""
    ELSE ""

\* mutant: the current node label is not used as a fallback
ToolName_NoNodeFallback(event, st) == OrElse(event.name, "tool")

\* lines 277 and 338: event.name || streamState.currentNodeName || "tool"
ToolName(event, st) ==
    OrElse(event.name, OrElse(st.currentNodeName, "tool"))

\* mutant: an open text span is closed before the action span starts
handleToolStart_ClosesText(event, st, md, n) ==
    LET fresh == ~Truthy(event.run_id)
        runId == IF fresh THEN randomUUID(n + 1) ELSE event.run_id
        n1 == IF fresh THEN n + 1 ELSE n
        known == MapGet(st.toolRunIdToActionId, runId)
        actionExecutionId == IF Truthy(known) THEN known ELSE runId
        st1 == IF Truthy(known) THEN st
               ELSE [st EXCEPT !.toolRunIdToActionId = MapSet(@, runId, actionExecutionId)]
        inputAny == IF event.data.defined THEN event.data.input ELSE NoValue
    IN  IF ~getShouldEmitToolCallsFromMetadata(event, md) THEN Ret(st, <<>>, n)
        ELSE Ret([st1 EXCEPT !.assistantMessageId = UNDEFINED],
                 (IF Truthy(st.assistantMessageId)
                  THEN sendTextMessageEnd(st.assistantMessageId) ELSE <<>>)
                     \o sendActionExecutionStart(actionExecutionId, ToolName(event, st),
                                                 UNDEFINED)
                     \o sendActionExecutionArgs(actionExecutionId, ToolArgs(inputAny)),
                 n1)

\* mutant: the action span is not anchored to the open text span
handleToolStart_NoParent(event, st, md, n) ==
    LET fresh == ~Truthy(event.run_id)
        runId == IF fresh THEN randomUUID(n + 1) ELSE event.run_id
        n1 == IF fresh THEN n + 1 ELSE n
        known == MapGet(st.toolRunIdToActionId, runId)
        actionExecutionId == IF Truthy(known) THEN known ELSE runId
        st1 == IF Truthy(known) THEN st
               ELSE [st EXCEPT !.toolRunIdToActionId = MapSet(@, runId, actionExecutionId)]
        inputAny == IF event.data.defined THEN event.data.input ELSE NoValue
    IN  IF ~getShouldEmitToolCallsFromMetadata(event, md) THEN Ret(st, <<>>, n)
        ELSE Ret(st1,
                 sendActionExecutionStart(actionExecutionId, ToolName(event, st), UNDEFINED)
                     \o sendActionExecutionArgs(actionExecutionId, ToolArgs(inputAny)),
                 n1)

\* mutant: the correlation entry is recorded before the flag is looked at
handleToolStart_MapsWhenOff(event, st, md, n) ==
    LET fresh == ~Truthy(event.run_id)
        runId == IF fresh THEN randomUUID(n + 1) ELSE event.run_id
        n1 == IF fresh THEN n + 1 ELSE n
        known == MapGet(st.toolRunIdToActionId, runId)
        actionExecutionId == IF Truthy(known) THEN known ELSE runId
        st1 == IF Truthy(known) THEN st
               ELSE [st EXCEPT !.toolRunIdToActionId = MapSet(@, runId, actionExecutionId)]
        inputAny == IF event.data.defined THEN event.data.input ELSE NoValue
    IN  IF ~getShouldEmitToolCallsFromMetadata(event, md) THEN Ret(st1, <<>>, n1)
        ELSE Ret(st1,
                 sendActionExecutionStart(actionExecutionId, ToolName(event, st),
                                          st.assistantMessageId)
                     \o sendActionExecutionArgs(actionExecutionId, ToolArgs(inputAny)),
                 n1)

handleToolStart(event, st, md, n) ==
    LET fresh == ~Truthy(event.run_id)
        runId == IF fresh THEN randomUUID(n + 1) ELSE event.run_id
        n1 == IF fresh THEN n + 1 ELSE n
        known == MapGet(st.toolRunIdToActionId, runId)
        actionExecutionId == IF Truthy(known) THEN known ELSE runId
        st1 == IF Truthy(known) THEN st
               ELSE [st EXCEPT !.toolRunIdToActionId = MapSet(@, runId, actionExecutionId)]
        inputAny == IF event.data.defined THEN event.data.input ELSE NoValue
    IN  IF ~getShouldEmitToolCallsFromMetadata(event, md) THEN Ret(st, <<>>, n)
        ELSE Ret(st1,
                 sendActionExecutionStart(actionExecutionId, ToolName(event, st),
                                          st.assistantMessageId)
                     \o sendActionExecutionArgs(actionExecutionId, ToolArgs(inputAny)),
                 n1)

\* mutant: a tool end without a correlation entry is treated as an error
handleToolEnd_ThrowsOnUnknown(event, st, md, n) ==
    LET toolMessage == IF event.data.defined THEN event.data.output ELSE NoMsg
        content == MsgContent(toolMessage)
        isString == content.kind \in {"undefined", "string"}
        json == JSONStringifyContent(content)
        fresh == ~Truthy(event.run_id)
        runId == IF fresh THEN randomUUID(n + 1) ELSE event.run_id
        n1 == IF fresh THEN n + 1 ELSE n
        known == MapGet(st.toolRunIdToActionId, runId)
    IN  IF ~getShouldEmitToolCallsFromMetadata(event, md) THEN Ret(st, <<>>, n)
        ELSE IF ~Truthy(known)
             THEN Throw(st, <<>>, n1, "Error: unknown tool run")
        ELSE IF ~isString /\ ~json.ok
             THEN Throw(st, sendActionExecutionEnd(known), n1,
                        "TypeError: cyclic object value")
        ELSE Ret(st,
                 sendActionExecutionEnd(known)
                     \o sendActionExecutionResult(known, ToolName(event, st),
                            IF isString THEN content.str ELSE json.text),
                 n1)

\* mutant: the correlation entry of the tool run is deleted when the run ends
handleToolEnd_DropsEntry(event, st, md, n) ==
    LET toolMessage == IF event.data.defined THEN event.data.output ELSE NoMsg
        content == MsgContent(toolMessage)
        isString == content.kind \in {"undefined", "string"}
        json == JSONStringifyContent(content)
        fresh == ~Truthy(event.run_id)
        runId == IF fresh THEN randomUUID(n + 1) ELSE event.run_id
        n1 == IF fresh THEN n + 1 ELSE n
        known == MapGet(st.toolRunIdToActionId, runId)
        actionExecutionId == IF Truthy(known) THEN known ELSE runId
        st1 == [st EXCEPT !.toolRunIdToActionId =
                   [x \in (DOMAIN @) \ {runId} |-> @[x]]]
    IN  IF ~getShouldEmitToolCallsFromMetadata(event, md) THEN Ret(st, <<>>, n)
        ELSE IF ~isString /\ ~json.ok
             THEN Throw(st1, sendActionExecutionEnd(actionExecutionId), n1,
                        "TypeError: cyclic object value")
        ELSE Ret(st1,
                 sendActionExecutionEnd(actionExecutionId)
                     \o sendActionExecutionResult(actionExecutionId, ToolName(event, st),
                            IF isString THEN content.str ELSE json.text),
                 n1)

\* mutant: the correlation map is not consulted, a fresh identifier is used
handleToolEnd_FreshId(event, st, md, n) ==
    LET toolMessage == IF event.data.defined THEN event.data.output ELSE NoMsg
        content == MsgContent(toolMessage)
        isString == content.kind \in {"undefined", "string"}
        json == JSONStringifyContent(content)
        actionExecutionId == randomUUID(n + 1)
        n1 == n + 1
    IN  IF ~getShouldEmitToolCallsFromMetadata(event, md) THEN Ret(st, <<>>, n)
        ELSE IF ~isString /\ ~json.ok
             THEN Throw(st, sendActionExecutionEnd(actionExecutionId), n1,
                        "TypeError: cyclic object value")
        ELSE Ret(st,
                 sendActionExecutionEnd(actionExecutionId)
                     \o sendActionExecutionResult(actionExecutionId, ToolName(event, st),
                            IF isString THEN content.str ELSE json.text),
                 n1)

\* mutant: the content is serialized even when it is a string
handleToolEnd_QuotesStrings(event, st, md, n) ==
    LET toolMessage == IF event.data.defined THEN event.data.output ELSE NoMsg
        content == MsgContent(toolMessage)
        isString == content.kind \in {"undefined", "string"}
        json == JSONStringifyContent(content)
        fresh == ~Truthy(event.run_id)
        runId == IF fresh THEN randomUUID(n + 1) ELSE event.run_id
        n1 == IF fresh THEN n + 1 ELSE n
        known == MapGet(st.toolRunIdToActionId, runId)
        actionExecutionId == IF Truthy(known) THEN known ELSE runId
        st1 == IF Truthy(known) THEN st
               ELSE [st EXCEPT !.toolRunIdToActionId = MapSet(@, runId, actionExecutionId)]
    IN  IF ~getShouldEmitToolCallsFromMetadata(event, md) THEN Ret(st, <<>>, n)
        ELSE IF ~isString /\ ~json.ok
             THEN Throw(st1, sendActionExecutionEnd(actionExecutionId), n1,
                        "TypeError: cyclic object value")
        ELSE Ret(st1,
                 sendActionExecutionEnd(actionExecutionId)
                     \o sendActionExecutionResult(actionExecutionId, ToolName(event, st),
                            IF isString THEN Quote(content.str) ELSE json.text),
                 n1)

handleToolEnd(event, st, md, n) ==
    LET toolMessage == IF event.data.defined THEN event.data.output ELSE NoMsg
        content == MsgContent(toolMessage)
        \* toolMessage?.content || ""
        isString == content.kind \in {"undefined", "string"}
        json == JSONStringifyContent(content)
        fresh == ~Truthy(event.run_id)
        runId == IF fresh THEN randomUUID(n + 1) ELSE event.run_id
        n1 == IF fresh THEN n + 1 ELSE n
        known == MapGet(st.toolRunIdToActionId, runId)
        actionExecutionId == IF Truthy(known) THEN known ELSE runId
        st1 == IF Truthy(known) THEN st
               ELSE [st EXCEPT !.toolRunIdToActionId = MapSet(@, runId, actionExecutionId)]
    IN  IF ~getShouldEmitToolCallsFromMetadata(event, md) THEN Ret(st, <<>>, n)
        ELSE IF ~isString /\ ~json.ok
             THEN Throw(st1, sendActionExecutionEnd(actionExecutionId), n1,
                        "TypeError: cyclic object value")
        ELSE Ret(st1,
                 sendActionExecutionEnd(actionExecutionId)
                     \o sendActionExecutionResult(actionExecutionId, ToolName(event, st),
                            IF isString THEN content.str ELSE json.text),
                 n1)

\* mutant: on_chain_end is given a case that clears the current node label
Dispatch_ChainEndClearsNode(event, st, md, n) ==
    LET st0 == IF ~Truthy(st.runId) /\ Truthy(event.run_id)
               THEN [st EXCEPT !.runId = event.run_id] ELSE st
    IN  CASE event.event = "on_chat_model_stream" -> handleChatModelStream(event, st0, md, n)
          [] event.event = "on_chat_model_end" -> handleChatModelEnd(event, st0, md, n)
          [] event.event = "on_tool_start" -> handleToolStart(event, st0, md, n)
          [] event.event = "on_tool_end" -> handleToolEnd(event, st0, md, n)
          [] event.event = "on_chain_start" -> handleChainStart(event, st0, n)
          [] event.event = "on_chain_end" ->
                 Ret([st0 EXCEPT !.currentNodeName = UNDEFINED], <<>>, n)
          [] OTHER -> Ret(st0, <<>>, n)

\* mutant: the runId is taken from every event that carries a run_id
Dispatch_AdoptsEventRunId(event, st, md, n) ==
    LET st0 == IF Truthy(event.run_id)
               THEN [st EXCEPT !.runId = event.run_id] ELSE st
    IN  CASE event.event = "on_chat_model_stream" -> handleChatModelStream(event, st0, md, n)
          [] event.event = "on_chat_model_end" -> handleChatModelEnd(event, st0, md, n)
          [] event.event = "on_tool_start" -> handleToolStart(event, st0, md, n)
          [] event.event = "on_tool_end" -> handleToolEnd(event, st0, md, n)
          [] event.event = "on_chain_start" -> handleChainStart(event, st0, n)
          [] OTHER -> Ret(st0, <<>>, n)

\* the switch of handleLangGraphEvent (lines 113-147)
Dispatch(event, st, md, n) ==
    LET st0 == IF ~Truthy(st.runId) /\ Truthy(event.run_id)
               THEN [st EXCEPT !.runId = event.run_id] ELSE st
    IN  CASE event.event = "on_chat_model_stream" -> handleChatModelStream(event, st0, md, n)
          [] event.event = "on_chat_model_end" -> handleChatModelEnd(event, st0, md, n)
          [] event.event = "on_tool_start" -> handleToolStart(event, st0, md, n)
          [] event.event = "on_tool_end" -> handleToolEnd(event, st0, md, n)
          [] event.event = "on_chain_start" -> handleChainStart(event, st0, n)
          [] OTHER -> Ret(st0, <<>>, n)

\* mutant: no try / catch, the exception of a handler propagates
handleLangGraphEvent_Rethrow(event, st, md, n) == Dispatch(event, st, md, n)

\* handleLangGraphEvent: the switch inside try / catch; never rethrows
handleLangGraphEvent(event, st, md, n) ==
    LET r == Dispatch(event, st, md, n)
    IN  IF r.error = UNDEFINED THEN r
        ELSE [state |-> r.state, out |-> r.out \o RunError(r.error),
              uuid |-> r.uuid, error |-> UNDEFINED]

----------------------------------------------------------------------------
(* Upstream events and run configurations drawn by the specifications *)

StreamEv(chunkId, finish, content, emitMessages) ==
    Event("on_chat_model_stream", "model-run-1", "ChatModel", emitMessages, UNDEFINED,
          "agent", ChunkData(Msg(chunkId, finish, content)))

ChatModelStreamEvents ==
    { StreamEv("msg-1", UNDEFINED, StrContent("Hel"), UNDEFINED),
      StreamEv("msg-1", UNDEFINED, StrContent("lo"), UNDEFINED),
      StreamEv(UNDEFINED, UNDEFINED, ArrContent(<<ImagePart, TextPart("Hi")>>), UNDEFINED),
      StreamEv("msg-2", UNDEFINED, StrContent(""), UNDEFINED),
      StreamEv("msg-1", "stop", StrContent("lo"), UNDEFINED),
      StreamEv("msg-1", UNDEFINED, StrContent("Hel"), "false"),
      StreamEv("msg-2", UNDEFINED, NoContent, UNDEFINED),
      StreamEv("msg-2", UNDEFINED, ArrContent(<<ImagePart>>), UNDEFINED),
      StreamEv("msg-2", UNDEFINED, ArrContent(<<TextPart(""), TextPart("x")>>), UNDEFINED),
      StreamEv("msg-2", UNDEFINED, StrContent("Bye"), UNDEFINED),
      Event("on_chat_model_stream", "model-run-1", "ChatModel", UNDEFINED, UNDEFINED,
            "agent", NoData) }

EndEv(data) ==
    Event("on_chat_model_end", "model-run-1", "ChatModel", UNDEFINED, UNDEFINED,
          "agent", data)

ChatModelEndEvents ==
    { EndEv(OutputData(Msg("msg-1", UNDEFINED, StrContent("Hello")))),
      EndEv(OutputData(MsgWithToolCalls("msg-3", StrContent(""),
                <<ToolCall("search", "call-1", ObjValue(<<<<"city", SField("NY")>>>>)),
                  ToolCall("lookup", UNDEFINED, NoValue)>>))),
      EndEv(OutputData(NoMsg)),
      EndEv(NoData),
      Event("on_chat_model_end", "model-run-1", "ChatModel", "false", UNDEFINED,
            "agent", OutputData(Msg("msg-1", UNDEFINED, StrContent("Hello")))) }

ToolStartEv(runId, name, input) ==
    Event("on_tool_start", runId, name, UNDEFINED, UNDEFINED, "tools", InputData(input))

ToolStartEvents ==
    { ToolStartEv("tool-run-1", "search", ObjValue(<<<<"city", SField("NY")>>>>)),
      ToolStartEv("tool-run-1", "search", ObjValue(<<<<"input", SField("NY")>>>>)),
      ToolStartEv(UNDEFINED, UNDEFINED, StrValue("NY")),
      ToolStartEv("tool-run-2", "search", CyclicValue) }

ToolEndEv(runId, name, data) ==
    Event("on_tool_end", runId, name, UNDEFINED, UNDEFINED, "tools", data)

ToolEndEvents ==
    { ToolEndEv("tool-run-1", "search", OutputData(Msg(UNDEFINED, UNDEFINED, StrContent("72F")))),
      ToolEndEv("tool-run-2", UNDEFINED,
                OutputData(Msg(UNDEFINED, UNDEFINED, ArrContent(<<TextPart("ok")>>)))),
      ToolEndEv("tool-run-1", "search", OutputData(Msg(UNDEFINED, UNDEFINED, CyclicContent))),
      ToolEndEv(UNDEFINED, "search", NoData) }

ChainStartEvents ==
    { Event("on_chain_start", "chain-run-1", "agent", UNDEFINED, UNDEFINED, "agent", NoData),
      Event("on_chain_start", "chain-run-1", "LangGraph", UNDEFINED, UNDEFINED, START, NoData) }

OtherEvents ==
    { Event("on_custom_event", "chain-run-1", "custom", UNDEFINED, UNDEFINED, "agent", NoData),
      Event("on_chain_end", "chain-run-1", "agent", UNDEFINED, UNDEFINED, "agent", NoData) }

UpstreamEvents ==
    ChatModelStreamEvents \cup ChatModelEndEvents \cup ToolStartEvents
        \cup ToolEndEvents \cup ChainStartEvents \cup OtherEvents

\* parameters of createStreamState and the metadata argument of a direct run
RunConfigs ==
    { [runId |-> "run-1", frontendActions |-> <<"search">>, metadata |-> NoMetadata],
      [runId |-> UNDEFINED, frontendActions |-> <<>>,
       metadata |-> Metadata("false", UNDEFINED)],
      [runId |-> "run-1", frontendActions |-> <<"search">>,
       metadata |-> Metadata("true", "false")] }

\* adapter configuration (config.metadata) and the runId of the request
\* actions: the names of the frontend actions declared by the request
AdapterConfigs ==
    { [metadata |-> NoMetadata, runId |-> "run-1", actions |-> <<"search">>],
      [metadata |-> Metadata("false", UNDEFINED), runId |-> "run-1", actions |-> <<>>],
      [metadata |-> NoMetadata, runId |-> UNDEFINED, actions |-> <<>>] }

NoConfig == [metadata |-> NoMetadata, runId |-> UNDEFINED, actions |-> <<>>]

\* Run State before createStreamState has run
NoState == [runId |-> UNDEFINED, assistantMessageId |-> UNDEFINED,
            currentNodeName |-> UNDEFINED, toolRunIdToActionId |-> <<>>,
            frontendActions |-> <<>>]

----------------------------------------------------------------------------
(* Requests of LangGraphServiceAdapter.process and their conversion *)

\* a message of the request; kind is the one is...Message() predicate of
\* the runtime message that answers true
RuntimeMessage(kind, id, role, content, name, actionExecutionId) ==
    [kind |-> kind, id |-> id, role |-> role, content |-> content,
     name |-> name, actionExecutionId |-> actionExecutionId]

\* src/src/internal/type-adapters.ts 87-128
convertRuntimeMessage(m) ==
    [type |-> CASE m.kind = "text" -> "TextMessage"
                [] m.kind = "actionExecution" -> "ActionExecutionMessage"
                [] m.kind = "result" -> "ResultMessage"
                [] m.kind = "agentState" -> "AgentStateMessage"
                [] m.kind = "image" -> "ImageMessage"
                [] OTHER -> UNDEFINED,
     id |-> m.id,
     role |-> IF m.kind \in {"text", "agentState", "image"} THEN m.role ELSE UNDEFINED,
     content |-> IF m.kind = "text" THEN m.content ELSE UNDEFINED,
     name |-> IF m.kind = "actionExecution" THEN m.name ELSE UNDEFINED,
     actionExecutionId |-> IF m.kind = "result" THEN m.actionExecutionId ELSE UNDEFINED,
     result |-> IF m.kind = "result" THEN m.content ELSE UNDEFINED]

\* a LangChain message; class UNDEFINED stands for the undefined that
\* convertMessageToLangChainMessage returns
BaseMessage(class, content, toolCallId, toolName) ==
    [class |-> class, content |-> content, toolCallId |-> toolCallId,
     toolName |-> toolName]

\* src/src/internal/langchain/utils.ts 19-48
convertMessageToLangChainMessage(message) ==
    CASE message.type = "TextMessage" /\ message.role = "user" ->
            BaseMessage("HumanMessage", message.content, UNDEFINED, UNDEFINED)
      [] message.type = "TextMessage" /\ message.role = "assistant" ->
            BaseMessage("AIMessage", message.content, UNDEFINED, UNDEFINED)
      [] message.type = "TextMessage" /\ message.role = "system" ->
            BaseMessage("SystemMessage", message.content, UNDEFINED, UNDEFINED)
      [] message.type = "ActionExecutionMessage" ->
            BaseMessage("AIMessage", "", message.id, message.name)
      [] message.type = "ResultMessage" ->
            BaseMessage("ToolMessage", message.result, message.actionExecutionId,
                        UNDEFINED)
      [] OTHER -> BaseMessage(UNDEFINED, UNDEFINED, UNDEFINED, UNDEFINED)

\* Array.prototype.map with convertRuntimeMessage (langgraph-adapter.ts 53-55)
MapRuntimeMessages(ms) == [i \in 1..Len(ms) |-> convertRuntimeMessage(ms[i])]

IsBaseMessage(b) == b.class # UNDEFINED

\* src/src/utils.ts 24-78: map, then drop what converted to undefined
convertCopilotKitToLangGraphInput(messages, actions) ==
    [messages |-> SelectSeq([i \in 1..Len(messages) |->
                                convertMessageToLangChainMessage(messages[i])],
                            IsBaseMessage),
     actions |-> actions]

\* isSystemMessage of @langchain/core/messages
isSystemMessage(b) == b.class = "SystemMessage"

NotSystemMessage(b) == ~isSystemMessage(b)

\* mutant: the inject strategy keeps only the first non-system message
ApplyStrategy_Truncating(strategy, input) ==
    IF strategy = "inject"
    THEN [input EXCEPT !.messages =
             IF SelectSeq(@, NotSystemMessage) = <<>> THEN <<>>
             ELSE <<Head(SelectSeq(@, NotSystemMessage))>>]
    ELSE input

\* langgraph-adapter.ts 62-84: the system prompt strategy applied to the
\* converted input
ApplyStrategy(strategy, input) ==
    IF strategy = "inject"
    THEN [input EXCEPT !.messages = SelectSeq(@, NotSystemMessage)]
    ELSE input

\* langgraph-adapter.ts 36: config.systemPromptStrategy ?? "passthrough"
systemPromptStrategy(c) ==
    IF c.systemPromptStrategy # UNDEFINED THEN c.systemPromptStrategy
    ELSE "passthrough"

\* langgraph-adapter.ts 133-140: an action in OpenAI tool shape
OpenAITool(name) == [type |-> "function", name |-> name]

\* the configurable field of the options of an agent invocation; the call
\* at langgraph-adapter.ts 126-144 passes { version: "v2" } only
NoConfigurable == [defined |-> FALSE, copilotkit_instructions |-> UNDEFINED]

\* langgraph-adapter.ts 126-144: the two arguments of agent.streamEvents
AgentCall(input) ==
    [input |-> [messages |-> input.messages,
                copilotkit |-> [actions |-> [i \in 1..Len(input.actions) |->
                                                OpenAITool(input.actions[i])]]],
     options |-> [version |-> "v2", configurable |-> NoConfigurable]]

\* the messages field of a request: a list, or null
MessageList(items) == [list |-> TRUE, items |-> items]
NullMessages == [list |-> FALSE, items |-> <<>>]

Request(messages, actions, threadId, runId) ==
    [messages |-> messages, actions |-> actions, threadId |-> threadId,
     runId |-> runId]

NoResponse == [threadId |-> UNDEFINED, runId |-> UNDEFINED]

\* no call of process is under way
NoCall ==
    [request |-> Request(NullMessages, <<>>, UNDEFINED, UNDEFINED),
     langGraphInput |-> [messages |-> <<>>, actions |-> <<>>],
     callbacks |-> 0,
     response |-> NoResponse,
     rejected |-> NoError,
     agentCalls |-> <<>>]

----------------------------------------------------------------------------
(* Spec: handleLangGraphEvent called directly on one Run State *)

Init ==
    \E c \in RunConfigs :
        /\ streamState = createStreamState(c.runId, c.frontendActions, 0).state
        /\ uuidCount = createStreamState(c.runId, c.frontendActions, 0).uuid
        /\ metadata = c.metadata
        /\ handled = <<>>
        /\ emitted = <<>>
        /\ origin = <<>>
        /\ raised = <<>>
        /\ isStopped = FALSE
        /\ buffer = <<>>
        /\ completeNotified = 0
        /\ pc = "direct"
        /\ config = NoConfig
        /\ pendingError = UNDEFINED
        /\ outcome = [status |-> "pending", error |-> NoError]
        /\ completeCalls = 0
        /\ runs = <<>>
        /\ before = <<>>
        /\ processCall = NoCall

\* await handleLangGraphEvent(event, eventStream$, streamState, debug, md):
\* the Run State is mutated in place and the events go to the sink; the
\* value is the exception the returned promise rejects with, or UNDEFINED
Handle(e, md) ==
    LET r == handleLangGraphEvent(e, streamState, md, uuidCount)
    IN  /\ streamState' = r.state
        /\ uuidCount' = r.uuid
        /\ handled' = Append(handled, e)
        /\ emitted' = emitted \o r.out
        /\ origin' = origin \o [i \in 1..Len(r.out) |-> Len(handled) + 1]
        /\ raised' = Append(raised, Dispatch(e, streamState, md, uuidCount).error # UNDEFINED)
        /\ buffer' = SubjectNext(isStopped, buffer, r.out)
        /\ pendingError' = r.error
        /\ before' = Append(before, streamState)

\* the upstream agent reports the end of a model call once: an
\* on_chat_model_end carrying a message identifier is not delivered again
Deliverable(e) ==
    (e.event = "on_chat_model_end" /\ e.data.defined /\ Truthy(MsgId(e.data.output)))
        => \A k \in 1..Len(handled) : handled[k] # e

\* a caller awaiting handleLangGraphEvent stops at a rejection
DirectCall(events) ==
    /\ pc = "direct"
    /\ Len(handled) < MaxEvents
    /\ \E e \in events : Deliverable(e) /\ Handle(e, metadata)
    /\ pc' = IF pendingError' = UNDEFINED THEN "direct" ELSE "rejected"
    /\ UNCHANGED <<processCall, runs, metadata, isStopped, completeNotified, config,
                   outcome, completeCalls>>

OnChatModelStream == DirectCall(ChatModelStreamEvents)
OnChatModelEnd == DirectCall(ChatModelEndEvents)
OnToolStart == DirectCall(ToolStartEvents)
OnToolEnd == DirectCall(ToolEndEvents)
OnChainStart == DirectCall(ChainStartEvents)
OnOtherEvent == DirectCall(OtherEvents)

Next ==
    \/ OnChatModelStream
    \/ OnChatModelEnd
    \/ OnToolStart
    \/ OnToolEnd
    \/ OnChainStart
    \/ OnOtherEvent

Spec == Init /\ [][Next]_vars

----------------------------------------------------------------------------
(* SpecAdapter: LangGraphServiceAdapter.processLangGraphStream             *)
(* pc: "start" -> "iterating" -> ("catch" ->) "finally" -> "settle" -> "done" *)

\* errors the upstream agent can throw
UpstreamErrors == {"agent failed"}

InitAdapter ==
    \E c \in AdapterConfigs :
        /\ config = c
        /\ streamState = NoState
        /\ uuidCount = 0
        /\ metadata = NoMetadata
        /\ handled = <<>>
        /\ emitted = <<>>
        /\ origin = <<>>
        /\ raised = <<>>
        /\ isStopped = FALSE
        /\ buffer = <<>>
        /\ completeNotified = 0
        /\ pc = "start"
        /\ pendingError = UNDEFINED
        /\ outcome = [status |-> "pending", error |-> NoError]
        /\ completeCalls = 0
        /\ runs = <<>>
        /\ before = <<>>
        /\ processCall = [NoCall EXCEPT !.langGraphInput.actions = c.actions]

\* lines 123-144: createStreamState({ runId }) (the declared actions go to
\* the agent only, frontendActions is left to its default), then
\* this.agent.streamEvents either returns the event stream or throws
StreamEvents ==
    /\ pc = "start"
    /\ streamState' = createStreamState(config.runId, <<>>, uuidCount).state
    /\ uuidCount' = createStreamState(config.runId, <<>>, uuidCount).uuid
    /\ \/ /\ pc' = "iterating"
          /\ pendingError' = UNDEFINED
       \/ \E err \in UpstreamErrors :
             /\ pc' = "catch"
             /\ pendingError' = err
    /\ processCall' = [processCall EXCEPT
                           !.agentCalls = Append(@, AgentCall(processCall.langGraphInput))]
    /\ UNCHANGED <<runs, before, metadata, handled, emitted, origin, raised, isStopped, buffer,
                   completeNotified, config, outcome, completeCalls>>

\* lines 155-184: the stream yields an event; handleLangGraphEvent is
\* awaited with four arguments, so its metadata parameter is undefined
Iterate(events, max) ==
    /\ pc = "iterating"
    /\ Len(handled) < max
    /\ \E e \in events : Deliverable(e) /\ Handle(e, NoMetadata)
    /\ pc' = IF pendingError' = UNDEFINED THEN "iterating" ELSE "catch"
    /\ UNCHANGED <<processCall, runs, metadata, isStopped, completeNotified, config, outcome,
                   completeCalls>>

IterateEvent == Iterate(UpstreamEvents, MaxStreamLen)

\* line 155: the stream throws while it is iterated
StreamThrows ==
    /\ pc = "iterating"
    /\ \E err \in UpstreamErrors : pendingError' = err
    /\ pc' = "catch"
    /\ UNCHANGED <<processCall, runs, before, streamState, metadata, uuidCount, handled, emitted, origin, raised,
                   isStopped, buffer, completeNotified, config, outcome, completeCalls>>

\* line 155: the stream is exhausted
StreamExhausted ==
    /\ pc = "iterating"
    /\ pc' = "finally"
    /\ UNCHANGED <<processCall, runs, before, streamState, metadata, uuidCount, handled, emitted, origin, raised,
                   isStopped, buffer, completeNotified, config, pendingError, outcome,
                   completeCalls>>

\* mutant: the caught error is rethrown as it is
CatchConvert_Raw ==
    /\ pc = "catch"
    /\ outcome' = [status |-> "throwing",
                   error |-> [name |-> "Error", message |-> pendingError]]
    /\ pc' = "finally"
    /\ UNCHANGED <<processCall, runs, before, streamState, metadata, uuidCount, handled, emitted, origin, raised,
                   isStopped, buffer, completeNotified, config, pendingError,
                   completeCalls>>

\* lines 213-218: throw convertServiceAdapterError(error, "LangGraph")
CatchConvert ==
    /\ pc = "catch"
    /\ outcome' = [status |-> "throwing", error |-> convertServiceAdapterError(pendingError)]
    /\ pc' = "finally"
    /\ UNCHANGED <<processCall, runs, before, streamState, metadata, uuidCount, handled, emitted, origin, raised,
                   isStopped, buffer, completeNotified, config, pendingError,
                   completeCalls>>

\* mutant: complete() is called after the loop instead of in finally
FinallyComplete_OnSuccessOnly ==
    /\ pc = "finally"
    /\ completeCalls' = IF outcome.status = "throwing" THEN completeCalls
                        ELSE completeCalls + 1
    /\ completeNotified' = IF outcome.status = "throwing" THEN completeNotified
                           ELSE SubjectComplete(isStopped, completeNotified)
    /\ isStopped' = IF outcome.status = "throwing" THEN isStopped ELSE TRUE
    /\ pc' = "settle"
    /\ UNCHANGED <<processCall, runs, before, streamState, metadata, uuidCount, handled, emitted, origin, raised,
                   buffer, config, pendingError, outcome>>

\* lines 219-221: eventStream$.complete()
FinallyComplete ==
    /\ pc = "finally"
    /\ completeCalls' = completeCalls + 1
    /\ completeNotified' = SubjectComplete(isStopped, completeNotified)
    /\ isStopped' = TRUE
    /\ pc' = "settle"
    /\ UNCHANGED <<processCall, runs, before, streamState, metadata, uuidCount, handled, emitted, origin, raised,
                   buffer, config, pendingError, outcome>>

\* the promise returned by processLangGraphStream settles
Settle ==
    /\ pc = "settle"
    /\ outcome' = IF outcome.status = "throwing"
                  THEN [status |-> "rejected", error |-> outcome.error]
                  ELSE [status |-> "resolved", error |-> NoError]
    /\ pc' = "done"
    /\ UNCHANGED <<processCall, runs, before, streamState, metadata, uuidCount, handled, emitted, origin, raised,
                   isStopped, buffer, completeNotified, config, pendingError,
                   completeCalls>>

NextAdapter ==
    \/ StreamEvents
    \/ IterateEvent
    \/ StreamThrows
    \/ StreamExhausted
    \/ CatchConvert
    \/ FinallyComplete
    \/ Settle

SpecAdapter == InitAdapter /\ [][NextAdapter]_vars

\* the JavaScript job queue runs every continuation of the async function,
\* and the upstream stream is finite or failing
LiveSpecAdapter == SpecAdapter /\ WF_vars(NextAdapter)

----------------------------------------------------------------------------
(* SpecSink: a RuntimeEventSubject driven on its own *)

InitSink ==
    /\ streamState = NoState
    /\ uuidCount = 0
    /\ metadata = NoMetadata
    /\ handled = <<>>
    /\ emitted = <<>>
    /\ origin = <<>>
    /\ raised = <<>>
    /\ isStopped = FALSE
    /\ buffer = <<>>
    /\ completeNotified = 0
    /\ pc = "sink"
    /\ config = NoConfig
    /\ pendingError = UNDEFINED
    /\ outcome = [status |-> "pending", error |-> NoError]
    /\ completeCalls = 0
    /\ runs = <<>>
    /\ before = <<>>
    /\ processCall = NoCall

\* one call of a send method: the events it passes to this.next
SinkPush(evs) ==
    /\ pc = "sink"
    /\ Len(emitted) < MaxSinkOps
    /\ emitted' = emitted \o evs
    /\ origin' = origin \o [i \in 1..Len(evs) |-> 0]
    /\ buffer' = SubjectNext(isStopped, buffer, evs)
    /\ UNCHANGED <<processCall, runs, before, streamState, metadata, uuidCount, handled, raised, isStopped,
                   completeNotified, pc, config, pendingError, outcome, completeCalls>>

SinkTextMessageStart == SinkPush(sendTextMessageStart("msg-1", UNDEFINED))
SinkTextMessageContent == \E c \in {"Hel", "lo"} : SinkPush(sendTextMessageContent("msg-1", c))
SinkTextMessageEnd == SinkPush(sendTextMessageEnd("msg-1"))
SinkTextMessage == SinkPush(sendTextMessage("msg-2", "Hello"))
SinkActionExecution == SinkPush(sendActionExecution("call-1", "search", "{}", UNDEFINED))
SinkActionExecutionResult ==
    \E r \in {"72F", UNDEFINED} : SinkPush(sendActionExecutionResult("call-1", "search", r))

\* eventStream$.complete()
SinkComplete ==
    /\ pc = "sink"
    /\ completeCalls < MaxSinkOps
    /\ completeCalls' = completeCalls + 1
    /\ completeNotified' = SubjectComplete(isStopped, completeNotified)
    /\ isStopped' = TRUE
    /\ UNCHANGED <<processCall, runs, before, streamState, metadata, uuidCount, handled, emitted, origin, raised,
                   buffer, pc, config, pendingError, outcome>>

NextSink ==
    \/ SinkTextMessageStart
    \/ SinkTextMessageContent
    \/ SinkTextMessageEnd
    \/ SinkTextMessage
    \/ SinkActionExecution
    \/ SinkActionExecutionResult
    \/ SinkComplete

SpecSink == InitSink /\ [][NextSink]_vars

----------------------------------------------------------------------------
(* SpecConcurrent: two processLangGraphStream invocations of one adapter   *)
(* instance, each with the sink of its own request.  JavaScript runs one   *)
(* job at a time, so the invocations interleave at their await points:     *)
(* a call of handleLangGraphEvent runs the handler body at once, and the   *)
(* rest (the catch block, the return to the for-await loop) runs in a      *)
(* later job.                                                              *)
(* pc of a run: "start" -> "iterating" <-> "awaiting", -> "finally" -> "done" *)

MaxRunLen == 2      \* upstream events yielded to each concurrent run

RunIds == {1, 2}

\* the runId of the request served by invocation r
RequestRunId(r) == IF r = 1 THEN "run-1" ELSE UNDEFINED

\* the events the agent yields to the concurrent runs
\* (a chunk whose message identifier is drawn from the UUID source, a
\* malformed chunk whose handling raises, a completion)
ConcurrentEvents ==
    { StreamEv(UNDEFINED, UNDEFINED, ArrContent(<<ImagePart, TextPart("Hi")>>), UNDEFINED),
      Event("on_chat_model_stream", "model-run-1", "ChatModel", UNDEFINED, UNDEFINED,
            "agent", NoData),
      EndEv(OutputData(Msg("msg-1", UNDEFINED, StrContent("Hello")))) }

InitConcurrent ==
    /\ runs = [r \in RunIds |->
                 [pc |-> "start", runId |-> RequestRunId(r), streamState |-> NoState,
                  handled |-> <<>>, emitted |-> <<>>, origin |-> <<>>,
                  pending |-> <<>>, draws |-> <<>>,
                  isStopped |-> FALSE, buffer |-> <<>>, completeNotified |-> 0]]
    /\ streamState = NoState
    /\ uuidCount = 0
    /\ metadata = NoMetadata
    /\ handled = <<>>
    /\ emitted = <<>>
    /\ origin = <<>>
    /\ raised = <<>>
    /\ isStopped = FALSE
    /\ buffer = <<>>
    /\ completeNotified = 0
    /\ pc = "concurrent"
    /\ config = NoConfig
    /\ pendingError = UNDEFINED
    /\ outcome = [status |-> "pending", error |-> NoError]
    /\ completeCalls = 0
    /\ before = <<>>
    /\ processCall = NoCall

\* the variables of the single-run specifications
soloVars == <<streamState, metadata, handled, emitted, origin, raised, isStopped,
              buffer, completeNotified, pc, config, pendingError, outcome,
              completeCalls, before, processCall>>

\* mutant: the Run State is kept in a field of the adapter instance
streamStateOf_Shared(r) == 1

\* the Run State used by invocation r: a const local to the invocation
streamStateOf(r) == r

\* line 123: const streamState = createStreamState({ runId: opts?.runId })
RunStart(r) ==
    /\ runs[r].pc = "start"
    /\ runs' = [runs EXCEPT
                  ![streamStateOf(r)].streamState =
                      createStreamState(runs[r].runId, <<>>, uuidCount).state,
                  ![r].draws = <<uuidCount>>,
                  ![r].pc = "iterating"]
    /\ uuidCount' = createStreamState(runs[r].runId, <<>>, uuidCount).uuid
    /\ UNCHANGED soloVars

\* mutant: handleLangGraphEvent is called without await, the loop goes on
\* to the next event while the call is still pending
RunNextEvent_NoAwait(r) ==
    /\ runs[r].pc \in {"iterating", "awaiting"}
    /\ Len(runs[r].handled) < MaxRunLen
    /\ \E e \in ConcurrentEvents :
          LET res == Dispatch(e, runs[streamStateOf(r)].streamState, NoMetadata, uuidCount)
              k == Len(runs[r].handled) + 1
          IN  /\ runs' = [runs EXCEPT
                            ![streamStateOf(r)].streamState = res.state,
                            ![r].handled = Append(@, e),
                            ![r].emitted = @ \o res.out,
                            ![r].origin = @ \o [i \in 1..Len(res.out) |-> k],
                            ![r].buffer = SubjectNext(runs[r].isStopped, @, res.out),
                            ![r].pending = IF res.error = UNDEFINED THEN @
                                           ELSE Append(@, [error |-> res.error, of |-> k]),
                            ![r].draws = Append(@, uuidCount),
                            ![r].pc = "awaiting"]
              /\ uuidCount' = res.uuid
    /\ UNCHANGED soloVars

\* lines 155-183: the stream yields an event and handleLangGraphEvent is
\* called: the switch and the handler body run at once (utils.ts 106-147),
\* an exception of the handler is left to the catch block
RunNextEvent(r) ==
    /\ runs[r].pc = "iterating"
    /\ Len(runs[r].handled) < MaxRunLen
    /\ \E e \in ConcurrentEvents :
          LET res == Dispatch(e, runs[streamStateOf(r)].streamState, NoMetadata, uuidCount)
              k == Len(runs[r].handled) + 1
          IN  /\ runs' = [runs EXCEPT
                            ![streamStateOf(r)].streamState = res.state,
                            ![r].handled = Append(@, e),
                            ![r].emitted = @ \o res.out,
                            ![r].origin = @ \o [i \in 1..Len(res.out) |-> k],
                            ![r].buffer = SubjectNext(runs[r].isStopped, @, res.out),
                            ![r].pending = IF res.error = UNDEFINED THEN @
                                           ELSE Append(@, [error |-> res.error, of |-> k]),
                            ![r].draws = Append(@, uuidCount),
                            ![r].pc = "awaiting"]
              /\ uuidCount' = res.uuid
    /\ UNCHANGED soloVars

\* the pending call of handleLangGraphEvent resumes: the catch block sends
\* the RunError (utils.ts 148-159), then the await of the loop returns
RunResume(r) ==
    /\ runs[r].pc = "awaiting"
    /\ IF runs[r].pending = <<>>
       THEN runs' = [runs EXCEPT ![r].pc = "iterating"]
       ELSE LET p == Head(runs[r].pending)
            IN  runs' = [runs EXCEPT
                           ![r].emitted = @ \o RunError(p.error),
                           ![r].origin = Append(@, p.of),
                           ![r].buffer = SubjectNext(runs[r].isStopped, @, RunError(p.error)),
                           ![r].pending = Tail(@),
                           ![r].pc = IF Tail(runs[r].pending) = <<>>
                                     THEN "iterating" ELSE "awaiting"]
    /\ UNCHANGED <<uuidCount, soloVars>>

\* line 155: the stream of the run is exhausted
RunExhausted(r) ==
    /\ runs[r].pc = "iterating"
    /\ runs' = [runs EXCEPT ![r].pc = "finally"]
    /\ UNCHANGED <<uuidCount, soloVars>>

\* lines 219-221: eventStream$.complete() on the sink of the run
RunComplete(r) ==
    /\ runs[r].pc = "finally"
    /\ runs' = [runs EXCEPT
                  ![r].completeNotified = SubjectComplete(runs[r].isStopped, @),
                  ![r].isStopped = TRUE,
                  ![r].pc = "done"]
    /\ UNCHANGED <<uuidCount, soloVars>>

NextConcurrent ==
    \E r \in RunIds :
        \/ RunStart(r)
        \/ RunNextEvent(r)
        \/ RunResume(r)
        \/ RunExhausted(r)
        \/ RunComplete(r)

SpecConcurrent == InitConcurrent /\ [][NextConcurrent]_vars

----------------------------------------------------------------------------
(* SpecProcess: LangGraphServiceAdapter.process, then the callback it       *)
(* registered run by the runtime (processLangGraphStream)                  *)
(* pc: "request" -> "registered" | "rejected"; "registered" -> "start" and  *)
(* on as in SpecAdapter                                                    *)

MaxMessages == 3            \* messages of a request
MaxProcessStreamLen == 1    \* upstream events yielded after a request

\* the messages a request is built from: the system prompt, a user and an
\* assistant text, an action execution, and an agent state message (which
\* has no LangChain counterpart)
RequestMessages ==
    { RuntimeMessage("text", "m-0", "system", "Be brief", UNDEFINED, UNDEFINED),
      RuntimeMessage("text", "m-1", "user", "Hi", UNDEFINED, UNDEFINED),
      RuntimeMessage("text", "m-2", "assistant", "Hello", UNDEFINED, UNDEFINED),
      RuntimeMessage("actionExecution", "a-1", UNDEFINED, UNDEFINED, "search", UNDEFINED),
      RuntimeMessage("agentState", "s-1", "assistant", UNDEFINED, UNDEFINED, UNDEFINED) }

MessageLists == UNION { [1..n -> RequestMessages] : n \in 0..MaxMessages }

\* requests: messages null or a list, threadId absent, empty or given,
\* runId absent or given
Requests ==
    { Request(ms, <<"search">>, t, r) :
        ms \in {NullMessages} \cup { MessageList(l) : l \in MessageLists },
        t \in {UNDEFINED, "", "thread-1"},
        r \in {UNDEFINED, "run-1"} }

\* the systemPromptStrategy option of the adapter configuration
ProcessConfigs ==
    { [metadata |-> NoMetadata, runId |-> UNDEFINED, actions |-> <<>>,
       systemPromptStrategy |-> s] : s \in {UNDEFINED, "passthrough", "inject"} }

\* the events the agent yields once the callback runs
ProcessStreamEvents ==
    { StreamEv("msg-1", UNDEFINED, StrContent("Hel"), UNDEFINED),
      EndEv(OutputData(Msg("msg-1", UNDEFINED, StrContent("Hello")))) }

\* messages.map on a value that is not a list
NotAList == "Cannot read properties of null (reading 'map')"

InitProcess ==
    \E c \in ProcessConfigs, req \in Requests :
        /\ config = c
        /\ processCall = [NoCall EXCEPT !.request = req]
        /\ streamState = NoState
        /\ uuidCount = 0
        /\ metadata = NoMetadata
        /\ handled = <<>>
        /\ emitted = <<>>
        /\ origin = <<>>
        /\ raised = <<>>
        /\ isStopped = FALSE
        /\ buffer = <<>>
        /\ completeNotified = 0
        /\ pc = "request"
        /\ pendingError = UNDEFINED
        /\ outcome = [status |-> "pending", error |-> NoError]
        /\ completeCalls = 0
        /\ runs = <<>>
        /\ before = <<>>

\* mutant: the callback is registered before the input is converted, and
\* the response echoes the request's threadId as it is
Process_RegistersFirst ==
    /\ pc = "request"
    /\ LET req == processCall.request
           langGraphInput ==
               ApplyStrategy(systemPromptStrategy(config),
                   convertCopilotKitToLangGraphInput(
                       MapRuntimeMessages(req.messages.items), req.actions))
       IN  IF ~req.messages.list
           THEN /\ processCall' = [processCall EXCEPT
                                      !.callbacks = @ + 1,
                                      !.rejected = convertServiceAdapterError(NotAList)]
                /\ pc' = "rejected"
           ELSE /\ processCall' = [processCall EXCEPT
                                      !.langGraphInput = langGraphInput,
                                      !.callbacks = @ + 1,
                                      !.response = [threadId |-> req.threadId,
                                                    runId |-> req.runId]]
                /\ pc' = "registered"
    /\ UNCHANGED <<uuidCount, runs, before, streamState, metadata, handled, emitted, origin,
                   raised, isStopped, buffer, completeNotified, config, pendingError,
                   outcome, completeCalls>>

\* langgraph-adapter.ts 47-100: convert the request, apply the system
\* prompt strategy, register the stream callback, return the response;
\* whatever is thrown on the way is converted and rethrown
Process ==
    /\ pc = "request"
    /\ LET req == processCall.request
           langGraphInput ==
               ApplyStrategy(systemPromptStrategy(config),
                   convertCopilotKitToLangGraphInput(
                       MapRuntimeMessages(req.messages.items), req.actions))
       IN  IF ~req.messages.list
           THEN /\ processCall' = [processCall EXCEPT
                                      !.rejected = convertServiceAdapterError(NotAList)]
                /\ pc' = "rejected"
                /\ uuidCount' = uuidCount
           ELSE /\ processCall' = [processCall EXCEPT
                                      !.langGraphInput = langGraphInput,
                                      !.callbacks = @ + 1,
                                      !.response =
                                          [threadId |-> IF Truthy(req.threadId)
                                                        THEN req.threadId
                                                        ELSE randomUUID(uuidCount),
                                           runId |-> req.runId]]
                /\ uuidCount' = IF Truthy(req.threadId) THEN uuidCount
                                ELSE uuidCount + 1
                /\ pc' = "registered"
    /\ UNCHANGED <<runs, before, streamState, metadata, handled, emitted, origin,
                   raised, isStopped, buffer, completeNotified, config, pendingError,
                   outcome, completeCalls>>

\* langgraph-adapter.ts 87-91: the runtime runs the registered callback,
\* which calls processLangGraphStream(langGraphInput, eventStream$, { runId })
InvokeCallback ==
    /\ pc \in {"registered", "rejected"}
    /\ processCall.callbacks > 0
    /\ pc' = "start"
    /\ config' = [config EXCEPT !.runId = processCall.request.runId]
    /\ UNCHANGED <<processCall, runs, before, streamState, metadata, uuidCount, handled,
                   emitted, origin, raised, isStopped, buffer, completeNotified,
                   pendingError, outcome, completeCalls>>

IterateProcessEvent == Iterate(ProcessStreamEvents, MaxProcessStreamLen)

NextProcess ==
    \/ Process
    \/ InvokeCallback
    \/ StreamEvents
    \/ IterateProcessEvent
    \/ StreamThrows
    \/ StreamExhausted
    \/ CatchConvert
    \/ FinallyComplete
    \/ Settle

SpecProcess == InitProcess /\ [][NextProcess]_vars

----------------------------------------------------------------------------
(* SpecFlags: handleLangGraphEvent called directly, the emit flags of the   *)
(* run metadata and of each event ranging over true, false and absent      *)

MaxFlaggedEvents == 2   \* flagged events handled on one Run State

\* a flag of a metadata map: absent, true or false
Flags == {UNDEFINED, "true", "false"}

\* the metadata argument: absent, or a map with either flag in any state
MetadataValues == {NoMetadata} \cup { Metadata(m, t) : m, t \in Flags }

\* event.metadata carrying the two flags
WithFlags(e, m, t) == [e EXCEPT !.emitMessages = m, !.emitToolCalls = t]

FlaggedChunk == StreamEv("msg-1", UNDEFINED, StrContent("Hel"), UNDEFINED)

\* the end of a model call that asks for the declared action "search"
FlaggedEnd ==
    EndEv(OutputData(MsgWithToolCalls("msg-1", StrContent(""),
              <<ToolCall("search", "call-1", ObjValue(<<<<"city", SField("NY")>>>>))>>)))

FlaggedToolStart ==
    ToolStartEv("tool-run-1", "search", ObjValue(<<<<"city", SField("NY")>>>>))

FlaggedToolEnd ==
    ToolEndEv("tool-run-1", "search", OutputData(Msg(UNDEFINED, UNDEFINED, StrContent("72F"))))

InitFlags ==
    \E md \in MetadataValues :
        /\ streamState = createStreamState("run-1", <<"search">>, 0).state
        /\ uuidCount = createStreamState("run-1", <<"search">>, 0).uuid
        /\ metadata = md
        /\ handled = <<>>
        /\ emitted = <<>>
        /\ origin = <<>>
        /\ raised = <<>>
        /\ isStopped = FALSE
        /\ buffer = <<>>
        /\ completeNotified = 0
        /\ pc = "direct"
        /\ config = NoConfig
        /\ pendingError = UNDEFINED
        /\ outcome = [status |-> "pending", error |-> NoError]
        /\ completeCalls = 0
        /\ runs = <<>>
        /\ before = <<>>
        /\ processCall = NoCall

\* await handleLangGraphEvent(event, eventStream$, streamState, debug,
\* metadata) on an event whose own metadata carries any pair of flags
FlaggedCall(e) ==
    /\ pc = "direct"
    /\ Len(handled) < MaxFlaggedEvents
    /\ \E m \in Flags, t \in Flags : Handle(WithFlags(e, m, t), metadata)
    /\ pc' = IF pendingError' = UNDEFINED THEN "direct" ELSE "rejected"
    /\ UNCHANGED <<processCall, runs, metadata, isStopped, completeNotified, config,
                   outcome, completeCalls>>

OnFlaggedChunk == FlaggedCall(FlaggedChunk)
OnFlaggedEnd == FlaggedCall(FlaggedEnd)
OnFlaggedToolStart == FlaggedCall(FlaggedToolStart)
OnFlaggedToolEnd == FlaggedCall(FlaggedToolEnd)

NextFlags ==
    \/ OnFlaggedChunk
    \/ OnFlaggedEnd
    \/ OnFlaggedToolStart
    \/ OnFlaggedToolEnd

SpecFlags == InitFlags /\ [][NextFlags]_vars

----------------------------------------------------------------------------
(* SpecTools: handleLangGraphEvent called directly with tool and node       *)
(* events whose input, output, name and node label range over their shapes *)

MaxToolEvents == 3  \* tool and node events handled on one Run State

\* event.data.input of an on_tool_start: absent, a string, an object with a
\* string 'input' field, an object without one, an object whose 'input' is
\* not a string, an object that cannot be serialized
ToolInputs ==
    { NoValue,
      StrValue("NY"),
      ObjValue(<<<<"input", SField("NY")>>>>),
      ObjValue(<<<<"city", SField("NY")>>>>),
      ObjValue(<<<<"input", NField("5")>>>>),
      CyclicValue }

\* event.data of an on_tool_end: no data, a message with string content,
\* with empty content, with an array of parts, with unserializable content
ToolOutputs ==
    { NoData,
      OutputData(Msg(UNDEFINED, UNDEFINED, StrContent("72F"))),
      OutputData(Msg(UNDEFINED, UNDEFINED, StrContent(""))),
      OutputData(Msg(UNDEFINED, UNDEFINED, ArrContent(<<TextPart("ok")>>))),
      OutputData(Msg(UNDEFINED, UNDEFINED, CyclicContent)) }

\* event.name of a tool event: absent or given
ToolNames == {UNDEFINED, "search"}

\* event.metadata.langgraph_node of an on_chain_start
NodeLabels == {UNDEFINED, START, "agent", "tools"}

\* the last ones have no data at all
ShapedToolStarts ==
    { ToolStartEv("tool-run-1", nm, i) : nm \in ToolNames, i \in ToolInputs }
        \cup { Event("on_tool_start", "tool-run-1", nm, UNDEFINED, UNDEFINED, "tools", NoData) :
                  nm \in ToolNames }

ShapedToolEnds == { ToolEndEv("tool-run-1", nm, o) : nm \in ToolNames, o \in ToolOutputs }

ShapedChainStarts ==
    { Event("on_chain_start", "chain-run-1", "LangGraph", UNDEFINED, UNDEFINED, l, NoData) :
        l \in NodeLabels }

InitTools ==
    /\ streamState = createStreamState("run-1", <<>>, 0).state
    /\ uuidCount = createStreamState("run-1", <<>>, 0).uuid
    /\ metadata = NoMetadata
    /\ handled = <<>>
    /\ emitted = <<>>
    /\ origin = <<>>
    /\ raised = <<>>
    /\ isStopped = FALSE
    /\ buffer = <<>>
    /\ completeNotified = 0
    /\ pc = "direct"
    /\ config = NoConfig
    /\ pendingError = UNDEFINED
    /\ outcome = [status |-> "pending", error |-> NoError]
    /\ completeCalls = 0
    /\ runs = <<>>
    /\ before = <<>>
    /\ processCall = NoCall

\* await handleLangGraphEvent(event, eventStream$, streamState, debug,
\* metadata) for one of the events
ShapedCall(events) ==
    /\ pc = "direct"
    /\ Len(handled) < MaxToolEvents
    /\ \E e \in events : Handle(e, metadata)
    /\ pc' = IF pendingError' = UNDEFINED THEN "direct" ELSE "rejected"
    /\ UNCHANGED <<processCall, runs, metadata, isStopped, completeNotified, config,
                   outcome, completeCalls>>

OnShapedToolStart == ShapedCall(ShapedToolStarts)
OnShapedToolEnd == ShapedCall(ShapedToolEnds)
OnShapedChainStart == ShapedCall(ShapedChainStarts)

NextTools ==
    \/ OnShapedToolStart
    \/ OnShapedToolEnd
    \/ OnShapedChainStart

SpecTools == InitTools /\ [][NextTools]_vars

----------------------------------------------------------------------------
(* The mode-based handlers (src/src/utils.ts 881-1142): the Run State     *)
(* holds mode (null, "message" or "function") and idInProgress; null is   *)
(* written UNDEFINED                                                       *)

MaxModeEvents == 4   \* upstream events handled in one mode-based run

Mode_createStreamState(n) ==
    [state |-> [runId |-> randomUUID(n + 1),
                idInProgress |-> UNDEFINED,
                currentNodeName |-> UNDEFINED,
                mode |-> UNDEFINED],
     uuid |-> n + 1]

\* handleChatModelStream (955-999)
Mode_handleChatModelStream(event, st, n) ==
    LET chunk == IF event.data.defined THEN event.data.chunk ELSE NoMsg
        messageContent == resolveMessageContent(MsgContent(chunk))
        fresh == ~Truthy(MsgId(chunk))
        messageId == IF fresh THEN randomUUID(n + 1) ELSE MsgId(chunk)
        n1 == IF fresh THEN n + 1 ELSE n
        \* mode === "function" && idInProgress: the action span is ended
        closes == st.mode = "function" /\ Truthy(st.idInProgress)
        st1 == IF closes THEN [st EXCEPT !.mode = UNDEFINED, !.idInProgress = UNDEFINED]
               ELSE st
        out1 == IF closes THEN sendActionExecutionEnd(st.idInProgress) ELSE <<>>
        \* mode === null: a text span is opened
        opens == st1.mode = UNDEFINED
        st2 == IF opens THEN [st1 EXCEPT !.mode = "message", !.idInProgress = messageId]
               ELSE st1
        out2 == IF opens THEN sendTextMessageStart(messageId, UNDEFINED) ELSE <<>>
        \* mode === "message" && idInProgress: the content is sent
        out3 == IF st2.mode = "message" /\ Truthy(st2.idInProgress)
                THEN sendTextMessageContent(st2.idInProgress, messageContent) ELSE <<>>
    IN  IF chunk.type = "undefined"
        THEN Throw(st, <<>>, n, "TypeError: Cannot read properties of undefined")
        ELSE IF Truthy(MsgFinish(chunk)) THEN Ret(st, <<>>, n)
        ELSE IF ~Truthy(messageContent) THEN Ret(st, <<>>, n1)
        ELSE Ret(st2, out1 \o out2 \o out3, n1)

\* handleChatModelEnd (1004-1015)
Mode_handleChatModelEnd(st, n) ==
    IF st.mode = "message" /\ Truthy(st.idInProgress)
    THEN Ret([st EXCEPT !.mode = UNDEFINED, !.idInProgress = UNDEFINED],
             sendTextMessageEnd(st.idInProgress), n)
    ELSE Ret(st, <<>>, n)

\* handleChainStart (1020-1030)
Mode_handleChainStart(event, st, n) ==
    IF Truthy(event.langgraph_node) /\ event.langgraph_node # START
    THEN Ret([st EXCEPT !.currentNodeName = event.langgraph_node], <<>>, n)
    ELSE Ret(st, <<>>, n)

\* handleToolStart (1035-1087)
Mode_handleToolStart(event, st, n) ==
    LET toolName == ToolName(event, st)
        fresh == ~Truthy(event.run_id)
        actionExecutionId == IF fresh THEN randomUUID(n + 1) ELSE event.run_id
        n1 == IF fresh THEN n + 1 ELSE n
        inputAny == IF event.data.defined THEN event.data.input ELSE NoValue
        \* mode === "message" && idInProgress: the text span is ended
        closes == st.mode = "message" /\ Truthy(st.idInProgress)
        st1 == IF closes THEN [st EXCEPT !.mode = UNDEFINED, !.idInProgress = UNDEFINED]
               ELSE st
        out1 == IF closes THEN sendTextMessageEnd(st.idInProgress) ELSE <<>>
        \* mode === null: function mode is entered
        st2 == IF st1.mode = UNDEFINED THEN [st1 EXCEPT !.mode = "function"] ELSE st1
        \* mode === "function": the action span is opened
        starts == st2.mode = "function"
        st3 == IF starts THEN [st2 EXCEPT !.idInProgress = actionExecutionId] ELSE st2
        out3 == IF starts
                THEN sendActionExecutionStart(actionExecutionId, toolName, UNDEFINED)
                         \o sendActionExecutionArgs(actionExecutionId, ToolArgs(inputAny))
                ELSE <<>>
    IN  Ret(st3, out1 \o out3, n1)

\* handleToolEnd (1092-1116)
Mode_handleToolEnd(event, st, n) ==
    LET actionExecutionId == st.idInProgress
        toolMessage == IF event.data.defined THEN event.data.output ELSE NoMsg
        content == MsgContent(toolMessage)
        \* toolMessage?.content || ""
        isString == content.kind \in {"undefined", "string"}
        json == JSONStringifyContent(content)
    IN  IF ~(st.mode = "function" /\ Truthy(st.idInProgress)) THEN Ret(st, <<>>, n)
        ELSE IF ~isString /\ ~json.ok
             THEN Throw(st, sendActionExecutionEnd(actionExecutionId), n,
                        "TypeError: cyclic object value")
        ELSE Ret([st EXCEPT !.mode = UNDEFINED, !.idInProgress = UNDEFINED],
                 sendActionExecutionEnd(actionExecutionId)
                     \o sendActionExecutionResult(actionExecutionId,
                            OrElse(st.currentNodeName, "tool"),
                            IF isString THEN content.str ELSE json.text),
                 n)

\* the switch of handleLangGraphEvent (904-933)
Mode_Dispatch(event, st, n) ==
    LET st0 == IF ~Truthy(st.runId) /\ Truthy(event.run_id)
               THEN [st EXCEPT !.runId = event.run_id] ELSE st
    IN  CASE event.event = "on_chat_model_stream" -> Mode_handleChatModelStream(event, st0, n)
          [] event.event = "on_chat_model_end" -> Mode_handleChatModelEnd(st0, n)
          [] event.event = "on_tool_start" -> Mode_handleToolStart(event, st0, n)
          [] event.event = "on_tool_end" -> Mode_handleToolEnd(event, st0, n)
          [] event.event = "on_chain_start" -> Mode_handleChainStart(event, st0, n)
          [] OTHER -> Ret(st0, <<>>, n)

\* handleLangGraphEvent (893-950): the switch inside try / catch
Mode_handleLangGraphEvent(event, st, n) ==
    LET r == Mode_Dispatch(event, st, n)
    IN  IF r.error = UNDEFINED THEN r
        ELSE [state |-> r.state, out |-> r.out \o RunError(r.error),
              uuid |-> r.uuid, error |-> UNDEFINED]

ModeChunk(chunkId, finish, content) ==
    Event("on_chat_model_stream", "model-run-1", "ChatModel", UNDEFINED, UNDEFINED,
          "agent", ChunkData(Msg(chunkId, finish, content)))

ModeChunks ==
    { ModeChunk("msg-1", UNDEFINED, StrContent("Hel")),
      ModeChunk(UNDEFINED, UNDEFINED, StrContent("lo")),
      ModeChunk("msg-1", UNDEFINED, StrContent("")),
      ModeChunk("msg-1", "stop", StrContent("")) }

ModeChatEnds ==
    { Event("on_chat_model_end", "model-run-1", "ChatModel", UNDEFINED, UNDEFINED,
            "agent", NoData) }

ModeToolStarts ==
    { ToolStartEv("tool-run-1", "search", StrValue("NY")),
      ToolStartEv("tool-run-2", "lookup", StrValue("SF")) }

ModeToolEnds ==
    { ToolEndEv("tool-run-1", "search", OutputData(Msg(UNDEFINED, UNDEFINED, StrContent("72F")))),
      ToolEndEv("tool-run-2", "lookup", OutputData(Msg(UNDEFINED, UNDEFINED, StrContent("ok")))),
      ToolEndEv("tool-run-1", "search", OutputData(Msg(UNDEFINED, UNDEFINED, CyclicContent))) }

ModeChainStarts ==
    { Event("on_chain_start", "chain-run-1", "LangGraph", UNDEFINED, UNDEFINED, "tools",
            NoData) }

InitMode ==
    /\ streamState = Mode_createStreamState(0).state
    /\ uuidCount = Mode_createStreamState(0).uuid
    /\ metadata = NoMetadata
    /\ handled = <<>>
    /\ emitted = <<>>
    /\ origin = <<>>
    /\ raised = <<>>
    /\ isStopped = FALSE
    /\ buffer = <<>>
    /\ completeNotified = 0
    /\ pc = "direct"
    /\ config = NoConfig
    /\ pendingError = UNDEFINED
    /\ outcome = [status |-> "pending", error |-> NoError]
    /\ completeCalls = 0
    /\ runs = <<>>
    /\ before = <<>>
    /\ processCall = NoCall

\* await handleLangGraphEvent(event, eventStream$, streamState, debug) for
\* one of the events: the Run State is mutated in place, the events go to
\* the sink
ModeCall(events) ==
    /\ pc = "direct"
    /\ Len(handled) < MaxModeEvents
    /\ \E e \in events :
          LET r == Mode_handleLangGraphEvent(e, streamState, uuidCount)
          IN  /\ streamState' = r.state
              /\ uuidCount' = r.uuid
              /\ handled' = Append(handled, e)
              /\ emitted' = emitted \o r.out
              /\ origin' = origin \o [i \in 1..Len(r.out) |-> Len(handled) + 1]
              /\ raised' = Append(raised,
                                  Mode_Dispatch(e, streamState, uuidCount).error # UNDEFINED)
              /\ buffer' = SubjectNext(isStopped, buffer, r.out)
              /\ pendingError' = r.error
              /\ before' = Append(before, streamState)
    /\ pc' = "direct"
    /\ UNCHANGED <<processCall, runs, metadata, isStopped, completeNotified, config,
                   outcome, completeCalls>>

OnModeChunk == ModeCall(ModeChunks)
OnModeChatEnd == ModeCall(ModeChatEnds)
OnModeToolStart == ModeCall(ModeToolStarts)
OnModeToolEnd == ModeCall(ModeToolEnds)
OnModeChainStart == ModeCall(ModeChainStarts)

NextMode ==
    \/ OnModeChunk
    \/ OnModeChatEnd
    \/ OnModeToolStart
    \/ OnModeToolEnd
    \/ OnModeChainStart

SpecMode == InitMode /\ [][NextMode]_vars

----------------------------------------------------------------------------
(* The token-level handlers (src/src/utils.ts 451-807): the Run State     *)
(* holds messagesInProgress, a map from the run identifier to the stream  *)
(* in progress {id, toolCallId, toolCallName}; null is written UNDEFINED  *)

MaxTokenEvents == 3   \* upstream events handled in one token-level run

END == "__end__"

\* randomId() of @copilotkit/shared: the n-th identifier generated
randomId(n) == "ck-" \o ToString(n)

Token_createStreamState(n) ==
    [state |-> [runId |-> randomId(n + 1),
                messagesInProgress |-> <<>>,
                currentNodeName |-> UNDEFINED,
                hasError |-> FALSE],
     uuid |-> n + 1]

\* no stream in progress (null)
NoStream == [defined |-> FALSE, id |-> UNDEFINED, toolCallId |-> UNDEFINED,
             toolCallName |-> UNDEFINED]
MessageInProgress(id, toolCallId, toolCallName) ==
    [defined |-> TRUE, id |-> id, toolCallId |-> toolCallId,
     toolCallName |-> toolCallName]

\* state.messagesInProgress.get(runId) || null
getMessageInProgress(runId, st) ==
    IF runId \in DOMAIN st.messagesInProgress THEN st.messagesInProgress[runId]
    ELSE NoStream

setMessageInProgress(runId, message, st) ==
    [st EXCEPT !.messagesInProgress = MapSet(@, runId, message)]

\* messagesInProgress.delete(runId)
MapDelete(m, k) == [x \in (DOMAIN m) \ {k} |-> m[x]]

\* sendAgentStateMessage of the sink (RuntimeEventSubject)
sendAgentStateMessage(threadId, nodeName, runId, active, state) ==
    <<[type |-> "AgentStateMessage", threadId |-> threadId, agentName |-> "LangGraph",
       nodeName |-> nodeName, runId |-> runId, active |-> active, role |-> "agent",
       state |-> state, running |-> active]>>

\* an AIMessageChunk with tool_calls and tool_call_chunks
TokenMsg(id, finish, content, calls, callChunks) ==
    [type |-> "message", id |-> id, finish_reason |-> finish, content |-> content,
     hasToolCalls |-> calls # <<>>, tool_calls |-> calls, tool_call_chunks |-> callChunks]

\* no tool-call fragment (tool_calls?.[0] of an empty or absent list)
NoFragment == [defined |-> FALSE, name |-> UNDEFINED, id |-> UNDEFINED, args |-> NoValue]
Fragment(name, id, args) == [defined |-> TRUE, name |-> name, id |-> id, args |-> args]

First(s) == IF s = <<>> THEN NoFragment ELSE s[1]

\* JS truthiness of fragment args: an object, or a non-empty string
TruthyArgs(v) == v.kind \in {"object", "cyclic"} \/ (v.kind = "string" /\ v.str # "")

\* event.metadata?.[flag] ?? true
FlagOrTrue(f) == IF f # UNDEFINED THEN f = "true" ELSE TRUE

\* the "start" branch of a fragment (552-568, 587-603): ActionExecutionStart,
\* then the stream in progress is recorded; every absent identifier is
\* drawn by its own call of randomId()
Token_StartFragment(fragment, chunk, st, n) ==
    LET freshA == ~Truthy(fragment.id)
        actionExecutionId == IF freshA THEN randomId(n + 1) ELSE fragment.id
        n1 == IF freshA THEN n + 1 ELSE n
        freshM == ~Truthy(chunk.id)
        id == IF freshM THEN randomId(n1 + 1) ELSE chunk.id
        n2 == IF freshM THEN n1 + 1 ELSE n1
        freshT == ~Truthy(fragment.id)
        toolCallId == IF freshT THEN randomId(n2 + 1) ELSE fragment.id
        n3 == IF freshT THEN n2 + 1 ELSE n2
    IN  Ret(setMessageInProgress(st.runId,
                                 MessageInProgress(id, toolCallId, fragment.name), st),
            sendActionExecutionStart(actionExecutionId, fragment.name, chunk.id),
            n3)

\* the text branch of handleChatModelStream (615-643)
Token_TextContent(messageContent, chunk, currentStream, st, n) ==
    LET opens == ~Truthy(currentStream.id) \/ Truthy(currentStream.toolCallId)
        fresh == ~Truthy(chunk.id)
        messageId == IF fresh THEN randomId(n + 1) ELSE chunk.id
        n1 == IF opens /\ fresh THEN n + 1 ELSE n
        st1 == IF opens
               THEN setMessageInProgress(st.runId,
                                         MessageInProgress(messageId, UNDEFINED, UNDEFINED),
                                         st)
               ELSE st
        stream1 == IF opens THEN getMessageInProgress(st.runId, st1) ELSE currentStream
    IN  Ret(st1,
            (IF opens THEN sendTextMessageStart(messageId, UNDEFINED) ELSE <<>>)
                \o (IF stream1.defined
                    THEN sendTextMessageContent(stream1.id, messageContent) ELSE <<>>),
            n1)

\* handleChatModelStream (524-644)
Token_handleChatModelStream(event, st, n) ==
    LET chunk == IF event.data.defined THEN event.data.chunk ELSE NoMsg
        shouldEmitMessages == FlagOrTrue(event.emitMessages)
        shouldEmitToolCalls == FlagOrTrue(event.emitToolCalls)
        currentStream == getMessageInProgress(st.runId, st)
        hasCurrentStream == Truthy(currentStream.id)
        toolCall == First(chunk.tool_calls)
        toolCallChunk == First(chunk.tool_call_chunks)
        messageContent == resolveMessageContent(chunk.content)
    IN  IF chunk.type = "undefined" THEN Ret(st, <<>>, n)
        ELSE IF Truthy(chunk.finish_reason) THEN Ret(st, <<>>, n)
        ELSE IF toolCall.defined /\ shouldEmitToolCalls
                /\ ~hasCurrentStream /\ Truthy(toolCall.name)
             THEN Token_StartFragment(toolCall, chunk, st, n)
        ELSE IF toolCall.defined /\ shouldEmitToolCalls
                /\ hasCurrentStream /\ Truthy(currentStream.toolCallId)
                /\ TruthyArgs(toolCall.args)
             THEN IF JSONStringifyObject(toolCall.args).ok
                  THEN Ret(st, sendActionExecutionArgs(currentStream.toolCallId,
                                   JSONStringifyObject(toolCall.args).text), n)
                  ELSE Throw(st, <<>>, n, "TypeError: cyclic object value")
        ELSE IF toolCallChunk.defined /\ shouldEmitToolCalls
                /\ ~hasCurrentStream /\ Truthy(toolCallChunk.name)
             THEN Token_StartFragment(toolCallChunk, chunk, st, n)
        ELSE IF toolCallChunk.defined /\ shouldEmitToolCalls
                /\ hasCurrentStream /\ Truthy(currentStream.toolCallId)
                /\ TruthyArgs(toolCallChunk.args)
             THEN Ret(st, sendActionExecutionArgs(currentStream.toolCallId,
                              toolCallChunk.args.str), n)
        ELSE IF Truthy(messageContent) /\ shouldEmitMessages
             THEN Token_TextContent(messageContent, chunk, currentStream, st, n)
        ELSE Ret(st, <<>>, n)

\* handleChatModelEnd (650-705)
Token_handleChatModelEnd(event, st, n) ==
    LET currentStream == getMessageInProgress(st.runId, st)
        st1 == [st EXCEPT !.messagesInProgress = MapDelete(@, st.runId)]
    IN  IF Truthy(currentStream.toolCallId)
        THEN Ret(st1, sendActionExecutionEnd(currentStream.toolCallId), n)
        ELSE IF Truthy(currentStream.id)
             THEN Ret(st1, sendTextMessageEnd(currentStream.id), n)
        ELSE Ret(st1, <<>>, n)

\* handleChainStart (710-733)
Token_handleChainStart(event, st, n) ==
    IF Truthy(event.langgraph_node) /\ event.langgraph_node # START
    THEN Ret([st EXCEPT !.currentNodeName = event.langgraph_node],
             sendAgentStateMessage(st.runId, event.langgraph_node, event.run_id,
                                   TRUE, "starting"),
             n)
    ELSE Ret(st, <<>>, n)

\* handleChainEnd (738-759)
Token_handleChainEnd(event, st, n) ==
    IF Truthy(event.langgraph_node) /\ event.langgraph_node # END
    THEN Ret(st,
             sendAgentStateMessage(st.runId, event.langgraph_node, event.run_id,
                                   FALSE, "completed"),
             n)
    ELSE Ret(st, <<>>, n)

\* the switch of handleLangGraphEvent (474-506)
Token_Dispatch(event, st, n) ==
    LET st0 == IF ~Truthy(st.runId) /\ Truthy(event.run_id)
               THEN [st EXCEPT !.runId = event.run_id] ELSE st
    IN  CASE event.event = "on_chat_model_stream" -> Token_handleChatModelStream(event, st0, n)
          [] event.event = "on_chat_model_end" -> Token_handleChatModelEnd(event, st0, n)
          [] event.event = "on_chain_start" -> Token_handleChainStart(event, st0, n)
          [] event.event = "on_chain_end" -> Token_handleChainEnd(event, st0, n)
          [] OTHER -> Ret(st0, <<>>, n)

\* handleLangGraphEvent (463-519): the switch inside try / catch
Token_handleLangGraphEvent(event, st, n) ==
    LET r == Token_Dispatch(event, st, n)
    IN  IF r.error = UNDEFINED THEN r
        ELSE [state |-> r.state, out |-> r.out \o RunError(r.error),
              uuid |-> r.uuid, error |-> UNDEFINED]

TokenChunk(msg) ==
    Event("on_chat_model_stream", "model-run-1", "ChatModel", UNDEFINED, UNDEFINED,
          "agent", ChunkData(msg))

\* chunks of text
TokenTextChunks ==
    { TokenChunk(TokenMsg("msg-1", UNDEFINED, StrContent("Hel"), <<>>, <<>>)),
      TokenChunk(TokenMsg(UNDEFINED, UNDEFINED, StrContent("lo"), <<>>, <<>>)),
      TokenChunk(TokenMsg("msg-1", "stop", StrContent(""), <<>>, <<>>)),
      [TokenChunk(TokenMsg("msg-1", UNDEFINED, StrContent("Hel"), <<>>, <<>>))
          EXCEPT !.emitMessages = "false"],
      Event("on_chat_model_stream", "model-run-1", "ChatModel", UNDEFINED, UNDEFINED,
            "agent", NoData) }

\* chunks carrying a tool-call fragment, in tool_calls or in tool_call_chunks,
\* with and without an identifier of its own
TokenToolChunks ==
    { TokenChunk(TokenMsg("msg-1", UNDEFINED, StrContent(""),
                          <<Fragment("search", id, NoValue)>>, <<>>)) :
        id \in {"call-1", UNDEFINED} }
    \cup
    { TokenChunk(TokenMsg("msg-1", UNDEFINED, StrContent(""), <<>>,
                          <<Fragment("lookup", id, StrValue(""))>>)) :
        id \in {"call-2", UNDEFINED} }
    \cup
    { TokenChunk(TokenMsg("msg-1", UNDEFINED, StrContent(""),
                          <<Fragment(UNDEFINED, UNDEFINED,
                                     ObjValue(<<<<"city", SField("NY")>>>>))>>, <<>>)),
      TokenChunk(TokenMsg("msg-1", UNDEFINED, StrContent(""),
                          <<Fragment(UNDEFINED, UNDEFINED, CyclicValue)>>, <<>>)),
      TokenChunk(TokenMsg("msg-1", UNDEFINED, StrContent(""), <<>>,
                          <<Fragment(UNDEFINED, UNDEFINED, StrValue("{\"q\":"))>>)),
      [TokenChunk(TokenMsg("msg-1", UNDEFINED, StrContent(""),
                           <<Fragment("search", "call-1", NoValue)>>, <<>>))
          EXCEPT !.emitToolCalls = "false"] }

TokenChatEnds ==
    { Event("on_chat_model_end", "model-run-1", "ChatModel", UNDEFINED, UNDEFINED,
            "agent", NoData) }

\* node labels of chain events: none (the graph itself), the entry and exit
\* sentinels, a node
TokenNodeLabels == {UNDEFINED, START, END, "agent"}

ChainRunOf(l) == IF l = UNDEFINED THEN "graph-run" ELSE "chain-run-" \o l

TokenChainStart(l) ==
    Event("on_chain_start", ChainRunOf(l), "LangGraph", UNDEFINED, UNDEFINED, l, NoData)
TokenChainEnd(l) ==
    Event("on_chain_end", ChainRunOf(l), "LangGraph", UNDEFINED, UNDEFINED, l, NoData)

TokenChainStarts == { TokenChainStart(l) : l \in TokenNodeLabels }
TokenChainEnds == { TokenChainEnd(l) : l \in TokenNodeLabels }

\* event types the switch has no case for
TokenOtherEvents ==
    { ToolStartEv("tool-run-1", "search", StrValue("NY")),
      Event("on_custom_event", "run-x", "custom", UNDEFINED, UNDEFINED, UNDEFINED, NoData) }

\* the number of handled events of one kind for the node label l
RECURSIVE CountOf(_, _, _)
CountOf(kind, l, k) ==
    IF k = 0 THEN 0
    ELSE CountOf(kind, l, k - 1)
             + (IF handled[k].event = kind /\ handled[k].langgraph_node = l THEN 1 ELSE 0)

\* upstream reports the end of a chain run only after its start
ChainDeliverable(e) ==
    e.event = "on_chain_end"
        => CountOf("on_chain_start", e.langgraph_node, Len(handled))
               > CountOf("on_chain_end", e.langgraph_node, Len(handled))

InitToken ==
    /\ streamState = Token_createStreamState(0).state
    /\ uuidCount = Token_createStreamState(0).uuid
    /\ metadata = NoMetadata
    /\ handled = <<>>
    /\ emitted = <<>>
    /\ origin = <<>>
    /\ raised = <<>>
    /\ isStopped = FALSE
    /\ buffer = <<>>
    /\ completeNotified = 0
    /\ pc = "direct"
    /\ config = NoConfig
    /\ pendingError = UNDEFINED
    /\ outcome = [status |-> "pending", error |-> NoError]
    /\ completeCalls = 0
    /\ runs = <<>>
    /\ before = <<>>
    /\ processCall = NoCall

\* await handleLangGraphEvent(event, eventStream$, streamState, debug) for
\* one of the events: the Run State is mutated in place, the events go to
\* the sink
TokenCall(events) ==
    /\ pc = "direct"
    /\ Len(handled) < MaxTokenEvents
    /\ \E e \in events :
          LET r == Token_handleLangGraphEvent(e, streamState, uuidCount)
          IN  /\ ChainDeliverable(e)
              /\ streamState' = r.state
              /\ uuidCount' = r.uuid
              /\ handled' = Append(handled, e)
              /\ emitted' = emitted \o r.out
              /\ origin' = origin \o [i \in 1..Len(r.out) |-> Len(handled) + 1]
              /\ raised' = Append(raised,
                                  Token_Dispatch(e, streamState, uuidCount).error # UNDEFINED)
              /\ buffer' = SubjectNext(isStopped, buffer, r.out)
              /\ pendingError' = r.error
              /\ before' = Append(before, streamState)
    /\ pc' = "direct"
    /\ UNCHANGED <<processCall, runs, metadata, isStopped, completeNotified, config,
                   outcome, completeCalls>>

OnTokenTextChunk == TokenCall(TokenTextChunks)
OnTokenToolChunk == TokenCall(TokenToolChunks)
OnTokenChatEnd == TokenCall(TokenChatEnds)
OnTokenChainStart == TokenCall(TokenChainStarts)
OnTokenChainEnd == TokenCall(TokenChainEnds)
OnTokenOtherEvent == TokenCall(TokenOtherEvents)

NextToken ==
    \/ OnTokenTextChunk
    \/ OnTokenToolChunk
    \/ OnTokenChatEnd
    \/ OnTokenChainStart
    \/ OnTokenChainEnd
    \/ OnTokenOtherEvent

SpecToken == InitToken /\ [][NextToken]_vars

----------------------------------------------------------------------------
(* Properties of the emitted sequence *)

EmittedIdx == 1..Len(emitted)

IsType(i, t) == emitted[i].type = t

\* the upstream event that was being handled when emitted[i] was pushed
Source(i) == handled[origin[i]]

\* identifiers of the text spans open just before emitted[i]: a
\* TextMessageStart at j < i with no TextMessageEnd of that identifier in
\* between
OpenTextIds(i) ==
    { emitted[j].messageId : j \in
        { j \in 1..(i - 1) :
            /\ IsType(j, "TextMessageStart")
            /\ \A k \in (j + 1)..(i - 1) :
                   ~(IsType(k, "TextMessageEnd")
                     /\ emitted[k].messageId = emitted[j].messageId) } }

\* C1 (as stated): no ActionExecutionStart is emitted between a
\* TextMessageStart and the TextMessageEnd of that message.
C1_NoActionStartInsideText ==
    \A i \in EmittedIdx :
        IsType(i, "ActionExecutionStart") => OpenTextIds(i) = {}

\* C1 (amended): on_tool_start does not close an open text span; the
\* ActionExecutionStart it emits while a text span is open carries that
\* span's messageId as parentMessageId, and carries no parentMessageId when
\* no text span is open.
C1_ActionStartAnchoredToOpenText ==
    \A i \in EmittedIdx :
        (IsType(i, "ActionExecutionStart") /\ Source(i).event = "on_tool_start")
            => IF OpenTextIds(i) = {}
               THEN emitted[i].parentMessageId = UNDEFINED
               ELSE OpenTextIds(i) = {emitted[i].parentMessageId}

\* an ActionExecutionStart of on_tool_start was emitted inside an open text span
C1_Witness ==
    \E i \in EmittedIdx :
        /\ IsType(i, "ActionExecutionStart")
        /\ Source(i).event = "on_tool_start"
        /\ OpenTextIds(i) # {}
        /\ emitted[i].parentMessageId # UNDEFINED

Count(t, id, n) ==
    Cardinality({ i \in 1..n : IsType(i, t) /\ emitted[i].messageId = id })

TextIds ==
    { emitted[i].messageId : i \in
        { i \in EmittedIdx : emitted[i].type \in {"TextMessageStart", "TextMessageEnd"} } }

Invocation(i) ==
    IF Truthy(Source(i).run_id) THEN Source(i).run_id
    ELSE "event-" \o ToString(origin[i])

FromToolEvent(i) == Source(i).event \in {"on_tool_start", "on_tool_end"}

\* C3: the actionExecutionId of the ActionExecutionArgs, ActionExecutionEnd
\* and ActionExecutionResult emitted for a tool invocation equals the
\* actionExecutionId of the ActionExecutionStart emitted for that invocation.
C3_ActionIdStable ==
    \A i, j \in EmittedIdx :
        ( /\ IsType(i, "ActionExecutionStart")
          /\ emitted[j].type \in {"ActionExecutionArgs", "ActionExecutionEnd",
                                  "ActionExecutionResult"}
          /\ FromToolEvent(i) /\ FromToolEvent(j)
          /\ Invocation(i) = Invocation(j) )
            => emitted[j].actionExecutionId = emitted[i].actionExecutionId

\* a tool invocation was started and ended, with Start, Args, End and Result emitted
C3_Witness ==
    \E i, j, k, l \in EmittedIdx :
        /\ IsType(i, "ActionExecutionStart") /\ IsType(j, "ActionExecutionArgs")
        /\ IsType(k, "ActionExecutionEnd") /\ IsType(l, "ActionExecutionResult")
        /\ FromToolEvent(i) /\ FromToolEvent(j) /\ FromToolEvent(k) /\ FromToolEvent(l)
        /\ Source(i).event = "on_tool_start" /\ Source(k).event = "on_tool_end"
        /\ Invocation(i) = Invocation(j)
        /\ Invocation(i) = Invocation(k)
        /\ Invocation(i) = Invocation(l)

\* a chunk that carries text to emit: emission enabled, no finish marker,
\* non-empty resolved content
HealthyChunk(e, md) ==
    /\ e.event = "on_chat_model_stream"
    /\ getShouldEmitMessagesFromMetadata(e, md)
    /\ e.data.defined
    /\ e.data.chunk.type = "message"
    /\ ~Truthy(e.data.chunk.finish_reason)
    /\ Truthy(resolveMessageContent(e.data.chunk.content))

\* an on_chat_model_end that carries the completed message
CompletionEvent(e, md) ==
    /\ e.event = "on_chat_model_end"
    /\ getShouldEmitMessagesFromMetadata(e, md)
    /\ e.data.defined
    /\ e.data.output.type = "message"

\* the completed message has a tool call that handleChatModelEnd translates
HasFrontendToolCall(e, md) ==
    /\ getShouldEmitToolCallsFromMetadata(e, md)
    /\ e.data.output.hasToolCalls
    /\ \E c \in 1..Len(e.data.output.tool_calls), a \in 1..Len(streamState.frontendActions) :
           e.data.output.tool_calls[c].name = streamState.frontendActions[a]

\* the run so far is N >= 1 healthy chunks followed by one completion event
C4_Scenario ==
    /\ Len(handled) >= 2
    /\ \A k \in 1..(Len(handled) - 1) : HealthyChunk(handled[k], metadata)
    /\ CompletionEvent(handled[Len(handled)], metadata)

\* Start, the N contents in arrival order, End, one messageId, nothing else
C4_Expected ==
    LET N == Len(handled) - 1
    IN  /\ Len(emitted) = N + 2
        /\ IsType(1, "TextMessageStart")
        /\ \A k \in 1..N :
               /\ IsType(k + 1, "TextMessageContent")
               /\ emitted[k + 1].content = resolveMessageContent(handled[k].data.chunk.content)
        /\ IsType(N + 2, "TextMessageEnd")
        /\ \A i \in EmittedIdx : emitted[i].messageId = emitted[1].messageId

\* C4 (as stated): from a fresh Run State with message emission enabled, N
\* content chunks followed by one on_chat_model_end emit exactly one
\* TextMessageStart, the N TextMessageContent in order, one TextMessageEnd,
\* all with one messageId, and nothing else.
C4_ChunksThenEnd ==
    C4_Scenario => C4_Expected

\* C4 (amended): the same, for an on_chat_model_end whose completed message
\* carries no tool call that is translated (none names a declared frontend
\* action, or tool-call emission is disabled).
C4_ChunksThenEndWithoutToolCalls ==
    (C4_Scenario /\ ~HasFrontendToolCall(handled[Len(handled)], metadata)) => C4_Expected

\* two chunks and a completion event without translated tool calls were handled
C4_Witness ==
    /\ Len(handled) = 3
    /\ C4_Scenario
    /\ ~HasFrontendToolCall(handled[3], metadata)
    /\ emitted[2].content # emitted[3].content

HasStringInputField(v) ==
    \E k \in 1..Len(v.fields) : v.fields[k][1] = "input" /\ v.fields[k][2].type = "string"

StringInputField(v) ==
    (CHOOSE f \in { v.fields[k] : k \in 1..Len(v.fields) } :
         f[1] = "input" /\ f[2].type = "string")[2].raw

\* the run so far is an on_tool_start with a name and a serializable object
\* input, followed by the on_tool_end of the same invocation whose output
\* message has string content, tool-call emission enabled
C5_Scenario ==
    /\ Len(handled) = 2
    /\ handled[1].event = "on_tool_start"
    /\ handled[2].event = "on_tool_end"
    /\ getShouldEmitToolCallsFromMetadata(handled[1], metadata)
    /\ getShouldEmitToolCallsFromMetadata(handled[2], metadata)
    /\ Truthy(handled[1].name)
    /\ handled[1].data.defined /\ handled[1].data.input.kind = "object"
    /\ Truthy(handled[1].run_id) /\ handled[2].run_id = handled[1].run_id
    /\ handled[2].data.defined
    /\ handled[2].data.output.type = "message"
    /\ handled[2].data.output.content.kind = "string"

C5_Expected(args) ==
    /\ Len(emitted) = 4
    /\ IsType(1, "ActionExecutionStart")
    /\ emitted[1].actionName = handled[1].name
    /\ IsType(2, "ActionExecutionArgs")
    /\ emitted[2].args = args
    /\ IsType(3, "ActionExecutionEnd")
    /\ IsType(4, "ActionExecutionResult")
    /\ emitted[4].result = handled[2].data.output.content.str
    /\ \A i \in 1..4 : emitted[i].actionExecutionId = emitted[1].actionExecutionId

TextTypes == {"TextMessageStart", "TextMessageContent", "TextMessageEnd"}

\* C6: when the adapter's run metadata sets copilotkit:emit-messages to
\* false, a run emits no TextMessageStart, TextMessageContent or
\* TextMessageEnd.
C6_NoTextWhenEmitMessagesOff ==
    (config.metadata.defined /\ config.metadata.emitMessages = "false")
        => \A i \in EmittedIdx : emitted[i].type \notin TextTypes

RunErrorsOf(k) == { i \in EmittedIdx : origin[i] = k /\ IsType(i, "RunError") }

\* C7: an event whose handling raises gets exactly one RunError with code
\* LANGGRAPH_EVENT_ERROR (and no other event gets one), handleLangGraphEvent
\* never rejects, and every healthy chunk, before or after a failing event,
\* still gets its TextMessageContent, emissions staying in arrival order.
C7_ErrorContained ==
    /\ pc # "rejected"
    /\ \A k \in 1..Len(handled) :
           /\ Cardinality(RunErrorsOf(k)) = IF raised[k] THEN 1 ELSE 0
           /\ \A i \in RunErrorsOf(k) : emitted[i].code = "LANGGRAPH_EVENT_ERROR"
           /\ HealthyChunk(handled[k], metadata)
                  => \E i \in EmittedIdx :
                         /\ origin[i] = k
                         /\ IsType(i, "TextMessageContent")
                         /\ emitted[i].content
                                = resolveMessageContent(handled[k].data.chunk.content)
    /\ \A i, j \in EmittedIdx : i < j => origin[i] <= origin[j]

\* a failing event was handled between two healthy chunks
C7_Witness ==
    /\ Len(handled) = 3
    /\ HealthyChunk(handled[1], metadata)
    /\ raised[2]
    /\ HealthyChunk(handled[3], metadata)
    /\ Cardinality({ i \in EmittedIdx : IsType(i, "TextMessageContent") }) = 2
    /\ Cardinality({ i \in EmittedIdx : IsType(i, "RunError") }) = 1

\* C8: processLangGraphStream calls complete() on the sink exactly once on
\* every exit route, and the close eventually happens.
C8_CompleteExactlyOnce ==
    /\ [](completeCalls <= 1)
    /\ [](pc \in {"settle", "done"} => (completeCalls = 1 /\ isStopped))
    /\ <>(pc = "done" /\ completeCalls = 1 /\ isStopped)

\* the stream threw during iteration and the run finished with one complete()
C8_Witness ==
    /\ pc = "done"
    /\ Len(handled) > 0
    /\ pendingError # UNDEFINED
    /\ completeCalls = 1
    /\ completeNotified = 1

\* C9: when the upstream source throws, processLangGraphStream rejects with
\* the converted error, and the sink is already completed when it rejects.
C9_RejectsAfterComplete ==
    /\ (pc = "done" /\ pendingError # UNDEFINED) => outcome.status = "rejected"
    /\ outcome.status = "rejected"
           => /\ isStopped
              /\ completeCalls = 1
              /\ pendingError \in UpstreamErrors
              /\ outcome.error = [name |-> "CopilotKitLowLevelError",
                                  message |-> "LangGraph: " \o pendingError]

\* the promise rejected after streamEvents threw on creation
C9_Witness ==
    /\ outcome.status = "rejected"
    /\ handled = <<>>
    /\ isStopped

\* C10: once the sink is completed nothing more is delivered to subscribers,
\* and completing it again notifies nobody.
C10_NothingAfterComplete ==
    [][isStopped => (buffer' = buffer /\ completeNotified' = completeNotified
                     /\ isStopped')]_vars

\* the sink was completed twice and an event sent after completion was dropped
C10_Witness ==
    /\ isStopped
    /\ completeCalls >= 2
    /\ completeNotified = 1
    /\ Len(emitted) > Len(buffer)
    /\ Len(buffer) > 0

----------------------------------------------------------------------------
(* Properties of one handling step: the step that appends an upstream      *)
(* event to handled                                                        *)

HandledStep == Len(handled') = Len(handled) + 1

\* the upstream event handled by the step
StepEvent == handled'[Len(handled')]

\* the events the step pushed to the sink
StepOut == SubSeq(emitted', Len(emitted) + 1, Len(emitted'))

StepOutIdx == 1..(Len(emitted') - Len(emitted))

\* the text spans open in the emitted sequence are exactly the one the Run
\* State marks as open
MarkerMatchesOpenSpan ==
    OpenTextIds(Len(emitted) + 1)
        = IF Truthy(streamState.assistantMessageId)
          THEN {streamState.assistantMessageId} ELSE {}

\* C11: handling on_tool_start or on_tool_end emits no TextMessageEnd and
\* leaves assistantMessageId unchanged; an ActionExecutionStart it emits
\* carries as parentMessageId the identifier of the text span open at that
\* moment, and no parentMessageId when no text span is open.
C11_ToolEventsKeepTextOpen ==
    [][(HandledStep /\ StepEvent.event \in {"on_tool_start", "on_tool_end"})
         => /\ MarkerMatchesOpenSpan
            /\ streamState'.assistantMessageId = streamState.assistantMessageId
            /\ \A i \in StepOutIdx :
                   /\ StepOut[i].type # "TextMessageEnd"
                   /\ StepOut[i].type = "ActionExecutionStart"
                          => StepOut[i].parentMessageId = streamState.assistantMessageId]_vars

\* a text span was opened, then a tool was started and ended: the span is
\* still open and the action span is anchored to it
C11_Witness ==
    /\ Len(handled) = 3
    /\ HealthyChunk(handled[1], metadata)
    /\ handled[2].event = "on_tool_start"
    /\ handled[3].event = "on_tool_end"
    /\ Truthy(streamState.assistantMessageId)
    /\ \A i \in EmittedIdx : ~IsType(i, "TextMessageEnd")
    /\ \E i, j \in EmittedIdx :
           /\ IsType(i, "ActionExecutionStart")
           /\ emitted[i].parentMessageId = streamState.assistantMessageId
           /\ IsType(j, "ActionExecutionResult")

\* C12: once toolRunIdToActionId holds an entry for a tool run identifier,
\* no later event changes or removes it: every entry of the map before a
\* step is in the map after the step, with the same value.
C12_CorrelationEntriesImmutable ==
    [][\A k \in DOMAIN streamState.toolRunIdToActionId :
           /\ k \in DOMAIN streamState'.toolRunIdToActionId
           /\ streamState'.toolRunIdToActionId[k] = streamState.toolRunIdToActionId[k]]_vars

\* a tool run was started and ended and a second tool run was seen
\* afterwards: the map holds both entries
C12_Witness ==
    /\ Len(handled) = 3
    /\ handled[1].event = "on_tool_start"
    /\ handled[2].event = "on_tool_end"
    /\ handled[1].run_id = "tool-run-1"
    /\ handled[2].run_id = "tool-run-1"
    /\ handled[3].event \in {"on_tool_start", "on_tool_end"}
    /\ "tool-run-1" \in DOMAIN streamState.toolRunIdToActionId
    /\ streamState.toolRunIdToActionId["tool-run-1"] = "tool-run-1"
    /\ Cardinality(DOMAIN streamState.toolRunIdToActionId) = 2

\* the step handles an on_chat_model_end while a text span is open
EndStepWithOpenText ==
    /\ HandledStep
    /\ StepEvent.event = "on_chat_model_end"
    /\ Truthy(streamState.assistantMessageId)

\* the step emits TextMessageEnd for the open text span and clears the marker
ClosesOpenText ==
    /\ streamState'.assistantMessageId = UNDEFINED
    /\ \E i \in StepOutIdx :
           /\ StepOut[i].type = "TextMessageEnd"
           /\ StepOut[i].messageId = streamState.assistantMessageId

\* C13 (as stated): whenever on_chat_model_end is handled while a text span
\* is open, a TextMessageEnd for that identifier is emitted and the open
\* text span marker is cleared.
C13_EndClosesOpenText ==
    [][EndStepWithOpenText => ClosesOpenText]_vars

\* C13 (amended): the same when the effective emit-messages flag of the
\* event is true and the event carries a data payload; when the flag is
\* false, or the payload is missing, no text event is emitted and the
\* marker is left as it is.
C13_EndClosesOpenTextWhenEnabled ==
    [][EndStepWithOpenText
         => IF getShouldEmitMessagesFromMetadata(StepEvent, metadata)
                  /\ StepEvent.data.defined
            THEN ClosesOpenText
            ELSE /\ streamState'.assistantMessageId = streamState.assistantMessageId
                 /\ \A i \in StepOutIdx : StepOut[i].type \notin TextTypes]_vars

\* a text span opened by a chunk was closed by an on_chat_model_end
C13_Witness ==
    /\ Len(handled) = 2
    /\ HealthyChunk(handled[1], metadata)
    /\ CompletionEvent(handled[2], metadata)
    /\ Len(emitted) >= 3
    /\ IsType(1, "TextMessageStart")
    /\ IsType(3, "TextMessageEnd")
    /\ emitted[3].messageId = emitted[1].messageId
    /\ streamState.assistantMessageId = UNDEFINED

\* StepOut[i], StepOut[i+1], StepOut[i+2] are TextMessageStart,
\* TextMessageContent, TextMessageEnd with one messageId
TripletAt(i) ==
    /\ i + 2 <= Len(StepOut)
    /\ StepOut[i].type = "TextMessageStart"
    /\ StepOut[i + 1].type = "TextMessageContent"
    /\ StepOut[i + 2].type = "TextMessageEnd"
    /\ StepOut[i + 1].messageId = StepOut[i].messageId
    /\ StepOut[i + 2].messageId = StepOut[i].messageId

EmitsTriplet == \E i \in StepOutIdx : TripletAt(i)

\* the resolved content of the completed message of the step's event
CompletedContent == resolveMessageContent(MsgContent(StepEvent.data.output))

\* C14 (as stated): on_chat_model_end emits a TextMessageStart,
\* TextMessageContent, TextMessageEnd triplet only when message emission is
\* enabled, the resolved content is non-empty, and no text span was ever
\* opened earlier in the run.
C14_TripletOnlyIfNoSpanEver ==
    [][(HandledStep /\ StepEvent.event = "on_chat_model_end" /\ EmitsTriplet)
         => /\ getShouldEmitMessagesFromMetadata(StepEvent, metadata)
            /\ Truthy(CompletedContent)
            /\ \A j \in EmittedIdx : ~IsType(j, "TextMessageStart")]_vars

\* C14 (amended): on_chat_model_end emits the triplet exactly when message
\* emission is enabled, the resolved content is non-empty, and no text span
\* is open when the event is handled; the triplet carries the resolved
\* content, and it is the only text the step emits.
C14_TripletIffNoSpanOpen ==
    [][(HandledStep /\ StepEvent.event = "on_chat_model_end")
         => /\ EmitsTriplet
                <=> /\ getShouldEmitMessagesFromMetadata(StepEvent, metadata)
                    /\ Truthy(CompletedContent)
                    /\ ~Truthy(streamState.assistantMessageId)
            /\ \A i \in StepOutIdx :
                   TripletAt(i)
                       => /\ i = 1
                          /\ StepOut[2].content = CompletedContent
                          /\ \A j \in StepOutIdx : j > 3 => StepOut[j].type \notin TextTypes]_vars

\* a text span was opened and closed, and a later on_chat_model_end emitted
\* a whole triplet for its completed message
C14_Witness ==
    /\ Len(handled) = 3
    /\ HealthyChunk(handled[1], metadata)
    /\ handled[2].event = "on_chat_model_end"
    /\ CompletionEvent(handled[3], metadata)
    /\ Len(emitted) = 6
    /\ IsType(3, "TextMessageEnd")
    /\ IsType(4, "TextMessageStart")
    /\ IsType(5, "TextMessageContent")
    /\ IsType(6, "TextMessageEnd")
    /\ origin[4] = 3
    /\ emitted[5].content = "Hello"

\* the names in a sequence of action names
Names(seq) == { seq[i] : i \in 1..Len(seq) }

\* the emitted sequence holds, for upstream event k, consecutive
\* ActionExecutionStart (with that actionName), ActionExecutionArgs and
\* ActionExecutionEnd sharing one actionExecutionId
TranslatedAt(k, name) ==
    \E i \in EmittedIdx :
        /\ i + 2 <= Len(emitted)
        /\ origin[i] = k /\ origin[i + 2] = k
        /\ IsType(i, "ActionExecutionStart")
        /\ emitted[i].actionName = name
        /\ IsType(i + 1, "ActionExecutionArgs")
        /\ IsType(i + 2, "ActionExecutionEnd")
        /\ emitted[i + 1].actionExecutionId = emitted[i].actionExecutionId
        /\ emitted[i + 2].actionExecutionId = emitted[i].actionExecutionId

\* C15: on on_chat_model_end with tool-call emission enabled, a tool call of
\* the completed message is translated into ActionExecutionStart,
\* ActionExecutionArgs, ActionExecutionEnd if and only if its name is in the
\* frontend action set declared for the run; other tool calls emit nothing.
C15_DeclaredToolCallsTranslated ==
    \A k \in 1..Len(handled) :
        ( /\ handled[k].event = "on_chat_model_end"
          /\ getShouldEmitToolCallsFromMetadata(handled[k], metadata)
          /\ handled[k].data.defined
          /\ handled[k].data.output.hasToolCalls )
            => \A c \in 1..Len(handled[k].data.output.tool_calls) :
                   TranslatedAt(k, handled[k].data.output.tool_calls[c].name)
                       <=> handled[k].data.output.tool_calls[c].name \in Names(config.actions)

\* an on_chat_model_stream event whose chunk carries a finish marker
FinishingChunk(e) ==
    /\ e.event = "on_chat_model_stream"
    /\ e.data.defined
    /\ Truthy(MsgFinish(e.data.chunk))

\* C16: an on_chat_model_stream chunk that carries a finish marker emits no
\* event and changes no Run State, even when it also carries non-empty text.
C16_FinishingChunkIgnored ==
    [][(HandledStep /\ FinishingChunk(StepEvent))
         => /\ emitted' = emitted
            /\ streamState' = streamState]_vars

\* a finishing chunk with text was handled while a text span was open, and
\* again while none was open
C16_Witness ==
    /\ Len(handled) = 3
    /\ FinishingChunk(handled[1])
    /\ HealthyChunk(handled[2], metadata)
    /\ FinishingChunk(handled[3])
    /\ Truthy(resolveMessageContent(handled[3].data.chunk.content))
    /\ Len(emitted) = 2
    /\ Truthy(streamState.assistantMessageId)

\* the message content carried by a chat-model event
CarriedContent(e) ==
    IF e.event = "on_chat_model_stream" THEN MsgContent(e.data.chunk)
    ELSE MsgContent(e.data.output)

\* content that is missing, empty, without a text-typed part, or whose
\* first text-typed part is empty
WithoutText(c) ==
    \/ c.kind = "undefined"
    \/ c.kind = "string" /\ c.str = ""
    \/ /\ c.kind = "array"
       /\ \/ \A i \in 1..Len(c.parts) : c.parts[i].type # "text"
          \/ \E i \in 1..Len(c.parts) :
                 /\ c.parts[i].type = "text"
                 /\ c.parts[i].text = ""
                 /\ \A j \in 1..(i - 1) : c.parts[j].type # "text"

\* C17: every TextMessageContent emitted carries non-empty content; a chunk
\* or completed message whose content is missing, empty, or has no
\* text-typed part (or an empty one) emits no TextMessageContent and opens
\* no text span.
C17_NoEmptyContent ==
    [][HandledStep
         => /\ \A i \in StepOutIdx :
                   StepOut[i].type = "TextMessageContent"
                       => (StepOut[i].content # "" /\ StepOut[i].content # UNDEFINED)
            /\ ( /\ StepEvent.event \in {"on_chat_model_stream", "on_chat_model_end"}
                 /\ WithoutText(CarriedContent(StepEvent)) )
                   => /\ \A i \in StepOutIdx :
                             StepOut[i].type \notin {"TextMessageContent", "TextMessageStart"}
                      /\ streamState'.assistantMessageId
                             \in {streamState.assistantMessageId, UNDEFINED}]_vars

\* a chunk with an image-only content and a completed message with empty
\* content were handled without text, then a chunk with text was emitted
C17_Witness ==
    /\ Len(handled) = 3
    /\ handled[1].event = "on_chat_model_stream"
    /\ handled[1].data.defined
    /\ handled[1].data.chunk.content.kind = "array"
    /\ WithoutText(handled[1].data.chunk.content)
    /\ CompletionEvent(handled[2], metadata)
    /\ WithoutText(handled[2].data.output.content)
    /\ HealthyChunk(handled[3], metadata)
    /\ Cardinality({ i \in EmittedIdx : IsType(i, "TextMessageContent") }) = 1
    /\ Cardinality({ i \in EmittedIdx : IsType(i, "TextMessageStart") }) = 1

\* handled[k] is an on_tool_end (tool-call emission enabled, output that
\* can be turned into a result string) of a tool run whose on_tool_start
\* was not observed before it
OrphanToolEnd(k) ==
    /\ handled[k].event = "on_tool_end"
    /\ getShouldEmitToolCallsFromMetadata(handled[k], metadata)
    /\ CarriedContent(handled[k]).kind # "cyclic"
    /\ \A j \in 1..(k - 1) :
           ~( /\ handled[j].event = "on_tool_start"
              /\ Truthy(handled[k].run_id)
              /\ handled[j].run_id = handled[k].run_id )

----------------------------------------------------------------------------
(* Properties of concurrent runs *)

\* the events a run emits when its upstream events are handled one after
\* the other on a Run State of its own, from event k on; draws[k + 1] is
\* the state of the UUID source when event k was handled
RECURSIVE AloneFrom(_, _, _, _)
AloneFrom(events, draws, st, k) ==
    IF k > Len(events) THEN <<>>
    ELSE LET res == handleLangGraphEvent(events[k], st, NoMetadata, draws[k + 1])
         IN  res.out \o AloneFrom(events, draws, res.state, k + 1)

Alone(r) ==
    AloneFrom(runs[r].handled, runs[r].draws,
              createStreamState(runs[r].runId, <<>>, runs[r].draws[1]).state, 1)

\* the RunError the pending call of handleLangGraphEvent is about to send
PendingOut(r) ==
    IF runs[r].pending = <<>> THEN <<>> ELSE RunError(Head(runs[r].pending).error)

\* C18: each of two runs processed concurrently by one adapter emits to its
\* own sink exactly the event sequence it emits when run alone (with the
\* same identifiers drawn from the UUID source): no Run State is shared.
C18_RunsIndependent ==
    \A r \in RunIds :
        runs[r].pc # "start"
            => /\ runs[r].emitted \o PendingOut(r) = Alone(r)
               /\ runs[r].buffer = runs[r].emitted

\* both runs handled two events each, run 2's first event between the two
\* events of run 1, and both opened a text span
C18_Witness ==
    /\ \A r \in RunIds :
           /\ runs[r].pc = "done"
           /\ Len(runs[r].handled) = 2
           /\ \E i \in 1..Len(runs[r].emitted) :
                  runs[r].emitted[i].type = "TextMessageStart"
    /\ runs[1].draws[2] < runs[2].draws[2]
    /\ runs[2].draws[2] < runs[1].draws[3]
    /\ runs[1].emitted # runs[2].emitted

\* C19: within one run the emitted sequence is the concatenation, in
\* arrival order, of the events emitted for each upstream event: handling
\* of an event begins only when every event produced for the previous one
\* has been pushed to the sink.
C19_EventsHandledInOrder ==
    /\ [](\A r \in RunIds :
              /\ \A i, j \in 1..Len(runs[r].emitted) :
                     i < j => runs[r].origin[i] <= runs[r].origin[j]
              /\ Len(runs[r].origin) = Len(runs[r].emitted)
              /\ runs[r].pending # <<>> => runs[r].pc = "awaiting")
    /\ [][\A r \in RunIds :
              Len(runs'[r].handled) > Len(runs[r].handled)
                  => /\ runs[r].pending = <<>>
                     /\ runs[r].pc = "iterating"
                     /\ runs[r].emitted \o PendingOut(r) = Alone(r)]_vars

\* a run handled a failing event and then a chunk: the RunError of the
\* first precedes the text of the second
C19_Witness ==
    \E r \in RunIds :
        /\ Len(runs[r].handled) = 2
        /\ runs[r].pc = "iterating"
        /\ Len(runs[r].emitted) = 3
        /\ runs[r].emitted[1].type = "RunError"
        /\ runs[r].emitted[2].type = "TextMessageStart"
        /\ runs[r].origin = <<1, 2, 2>>

----------------------------------------------------------------------------
(* Properties of the handling of one upstream event, over the history *)

HandledIdx == 1..Len(handled)

\* the Run State when the handling of handled[k] ended
After(k) == IF k < Len(handled) THEN before[k + 1] ELSE streamState

\* the positions in emitted of the events pushed while handling handled[k]
OutOf(k) == { i \in EmittedIdx : origin[i] = k }

HandledKinds ==
    {"on_chat_model_stream", "on_chat_model_end", "on_tool_start", "on_tool_end",
     "on_chain_start"}

\* C21: an upstream event whose kind is none of on_chat_model_stream,
\* on_chat_model_end, on_tool_start, on_tool_end, on_chain_start emits
\* nothing and leaves every field of the Run State unchanged.
C21_OtherKindsIgnored ==
    \A k \in HandledIdx :
        handled[k].event \notin HandledKinds
            => /\ OutOf(k) = {}
               /\ After(k) = before[k]
               /\ ~raised[k]

\* an on_chain_end was handled while a node label was recorded and a text
\* span was open: both are still there and nothing was emitted for it
C21_Witness ==
    /\ Len(handled) = 3
    /\ handled[1].event = "on_chain_start"
    /\ HealthyChunk(handled[2], metadata)
    /\ handled[3].event = "on_chain_end"
    /\ streamState.currentNodeName = "agent"
    /\ Truthy(streamState.assistantMessageId)
    /\ Len(emitted) = 2

----------------------------------------------------------------------------
(* Properties of process *)

\* the request's messages converted to LangChain messages, those with no
\* LangChain counterpart left out
ConvertedMessages ==
    convertCopilotKitToLangGraphInput(
        MapRuntimeMessages(processCall.request.messages.items),
        processCall.request.actions).messages

RECURSIVE DropSystem(_)
\* ms with every system message removed, the others in their order
DropSystem(ms) ==
    IF ms = <<>> THEN <<>>
    ELSE IF Head(ms).class = "SystemMessage" THEN DropSystem(Tail(ms))
    ELSE <<Head(ms)>> \o DropSystem(Tail(ms))

AgentCallIdx == 1..Len(processCall.agentCalls)

\* C22: with systemPromptStrategy "inject" the messages passed to the agent
\* are the converted messages with every system message removed and the
\* others in their relative order; with "passthrough", or with the option
\* absent, they are the converted messages unchanged
C22_StrategyShapesAgentMessages ==
    \A i \in AgentCallIdx :
        /\ config.systemPromptStrategy = "inject"
              => processCall.agentCalls[i].input.messages = DropSystem(ConvertedMessages)
        /\ config.systemPromptStrategy \in {"passthrough", UNDEFINED}
              => processCall.agentCalls[i].input.messages = ConvertedMessages

\* an inject request whose system prompt stands between two other messages
\* has reached the agent
C22_Witness ==
    /\ config.systemPromptStrategy = "inject"
    /\ Len(ConvertedMessages) = 3
    /\ ConvertedMessages[1].class = "HumanMessage"
    /\ ConvertedMessages[2].class = "SystemMessage"
    /\ ConvertedMessages[3].class = "AIMessage"
    /\ Len(processCall.agentCalls) = 1
    /\ Len(processCall.agentCalls[1].input.messages) = 2

\* the contents of the system messages among the converted messages
SystemPrompts ==
    { ConvertedMessages[j].content :
        j \in { j \in 1..Len(ConvertedMessages) :
                  ConvertedMessages[j].class = "SystemMessage" } }

\* C23: with systemPromptStrategy "inject", the content of the system
\* prompt removed from the message list is passed to the agent invocation
\* in the configurable field of its options, under copilotkit_instructions
C23_InstructionsInjected ==
    \A i \in AgentCallIdx :
        (config.systemPromptStrategy = "inject" /\ SystemPrompts # {})
            => /\ processCall.agentCalls[i].options.configurable.defined
               /\ processCall.agentCalls[i].options.configurable.copilotkit_instructions
                      \in SystemPrompts

\* process has returned a response
Responded == processCall.response.threadId # UNDEFINED

\* C24: when input conversion succeeds, process registers exactly one
\* stream callback on the request's event source and returns a response
\* whose threadId is the request's threadId when one is provided (a
\* non-empty string), a freshly generated identifier otherwise, and whose
\* runId is the request's runId unchanged
C24_OneCallbackAndResponse ==
    (pc # "request" /\ processCall.request.messages.list)
        => /\ processCall.callbacks = 1
           /\ Responded
           /\ processCall.rejected = NoError
           /\ processCall.response.runId = processCall.request.runId
           /\ Truthy(processCall.request.threadId)
                 => processCall.response.threadId = processCall.request.threadId
           /\ ~Truthy(processCall.request.threadId)
                 => /\ processCall.response.threadId = randomUUID(0)
                    /\ processCall.response.threadId # processCall.request.threadId

\* a request without threadId has been answered with a generated one, and
\* its callback has run to the end
C24_Witness ==
    /\ processCall.request.messages.list
    /\ processCall.request.threadId = UNDEFINED
    /\ processCall.request.runId = "run-1"
    /\ Responded
    /\ processCall.callbacks = 1
    /\ pc = "done"

\* C25: if input conversion fails inside process (messages is not a list),
\* process rejects with the converted error and registers no stream
\* callback, so no event is emitted and the sink is neither written nor
\* completed for that request
C25_ConversionFailureTouchesNothing ==
    (pc # "request" /\ ~processCall.request.messages.list)
        => /\ pc = "rejected"
           /\ processCall.rejected = convertServiceAdapterError(NotAList)
           /\ ~Responded
           /\ processCall.callbacks = 0
           /\ processCall.agentCalls = <<>>
           /\ emitted = <<>>
           /\ buffer = <<>>
           /\ completeCalls = 0
           /\ completeNotified = 0
           /\ ~isStopped

\* a request whose messages are null has been rejected
C25_Witness ==
    /\ ~processCall.request.messages.list
    /\ pc = "rejected"
    /\ processCall.rejected.name = "CopilotKitLowLevelError"

----------------------------------------------------------------------------
(* Span closure *)

\* the TextMessageStart events with no later TextMessageEnd of their id
UnclosedTextStarts ==
    { i \in EmittedIdx :
        /\ IsType(i, "TextMessageStart")
        /\ ~\E j \in EmittedIdx :
               /\ j > i
               /\ IsType(j, "TextMessageEnd")
               /\ emitted[j].messageId = emitted[i].messageId }

\* C26: every TextMessageStart emitted during a run is followed by a
\* TextMessageEnd with the same identifier before the sink is completed,
\* also when the upstream stream ends or throws while the span is open
C26_TextSpansClosedBeforeComplete ==
    isStopped => UnclosedTextStarts = {}

\* C27: when chunks of two model calls with distinct chunk identifiers
\* interleave within one run, each TextMessageContent is emitted under the
\* identifier of the model call its chunk belongs to, and an
\* on_chat_model_end of one call closes only the text span of that call
C27_ModelCallsNotMerged ==
    \A i \in EmittedIdx :
        /\ (/\ IsType(i, "TextMessageContent")
            /\ Source(i).event = "on_chat_model_stream"
            /\ Truthy(MsgId(Source(i).data.chunk)))
              => emitted[i].messageId = MsgId(Source(i).data.chunk)
        /\ (/\ IsType(i, "TextMessageEnd")
            /\ Source(i).event = "on_chat_model_end"
            /\ Truthy(MsgId(Source(i).data.output)))
              => emitted[i].messageId = MsgId(Source(i).data.output)

\* C28: every ActionExecutionEnd emitted by the on_tool_end handler is
\* immediately followed by an ActionExecutionResult with the same
\* actionExecutionId, whatever the tool output, one that cannot be
\* JSON-serialized included
C28_EndThenResult ==
    \A i \in EmittedIdx :
        (IsType(i, "ActionExecutionEnd") /\ Source(i).event = "on_tool_end")
            => /\ i + 1 \in EmittedIdx
               /\ IsType(i + 1, "ActionExecutionResult")
               /\ emitted[i + 1].actionExecutionId = emitted[i].actionExecutionId

----------------------------------------------------------------------------
(* Emission flags *)

\* the flag in the event's own metadata when defined there, otherwise the
\* flag in the run metadata when defined there, otherwise true
EffectiveFlag(ofEvent, ofRun) ==
    CASE ofEvent # UNDEFINED -> ofEvent = "true"
      [] ofEvent = UNDEFINED /\ ofRun # UNDEFINED -> ofRun = "true"
      [] OTHER -> TRUE

EmitsMessages(k) == EffectiveFlag(handled[k].emitMessages, metadata.emitMessages)
EmitsToolCalls(k) == EffectiveFlag(handled[k].emitToolCalls, metadata.emitToolCalls)

ActionTypes == {"ActionExecutionStart", "ActionExecutionArgs", "ActionExecutionEnd",
                "ActionExecutionResult"}

TextOutOf(k) == { i \in OutOf(k) : emitted[i].type \in TextTypes }
ActionOutOf(k) == { i \in OutOf(k) : emitted[i].type \in ActionTypes }

\* C29: the effective emit-messages flag of an event, and likewise its
\* emit-tool-calls flag, is the value in the event's own metadata when
\* defined there, otherwise the value in the run metadata when defined
\* there, otherwise true.  Seen through what the handlers emit: a chunk with
\* text emits exactly when its emit-messages flag holds, a model call end
\* closes the open text span exactly when it holds, and tool events and
\* declared tool calls are emitted exactly when the emit-tool-calls flag holds
C29_FlagPrecedence ==
    \A k \in HandledIdx :
        /\ handled[k].event = "on_chat_model_stream"
              => (OutOf(k) # {} <=> EmitsMessages(k))
        /\ handled[k].event = "on_chat_model_end"
              => /\ TextOutOf(k) # {}
                    <=> (EmitsMessages(k) /\ Truthy(before[k].assistantMessageId))
                 /\ ActionOutOf(k) # {} <=> EmitsToolCalls(k)
        /\ handled[k].event \in {"on_tool_start", "on_tool_end"}
              => (OutOf(k) # {} <=> EmitsToolCalls(k))

\* an event flag has overridden the run metadata in both directions: a chunk
\* emitted although the run turns messages off, and a tool start silenced
\* although the run turns tool calls on
C29_Witness ==
    /\ metadata.emitMessages = "false"
    /\ metadata.emitToolCalls = "true"
    /\ Len(handled) = 2
    /\ handled[1].event = "on_chat_model_stream"
    /\ handled[1].emitMessages = "true"
    /\ OutOf(1) # {}
    /\ handled[2].event = "on_tool_start"
    /\ handled[2].emitToolCalls = "false"
    /\ OutOf(2) = {}

\* C30: when the effective emit-tool-calls flag of an on_tool_start or
\* on_tool_end event is false, handling it emits nothing and leaves the Run
\* State unchanged, the correlation map included; an on_chat_model_end with
\* the flag false emits no ActionExecution event
C30_ToolCallsOffIsNoOp ==
    \A k \in HandledIdx :
        ~EmitsToolCalls(k)
            => /\ handled[k].event \in {"on_tool_start", "on_tool_end"}
                     => /\ OutOf(k) = {}
                        /\ After(k) = before[k]
                        /\ ~raised[k]
               /\ handled[k].event = "on_chat_model_end" => ActionOutOf(k) = {}

\* a tool start recorded its correlation entry, then a tool end whose own
\* metadata turns tool calls off emitted nothing and left the map as it was
C30_Witness ==
    /\ Len(handled) = 2
    /\ handled[1].event = "on_tool_start"
    /\ EmitsToolCalls(1)
    /\ handled[2].event = "on_tool_end"
    /\ handled[2].emitToolCalls = "false"
    /\ OutOf(2) = {}
    /\ before[2].toolRunIdToActionId # <<>>
    /\ streamState.toolRunIdToActionId = before[2].toolRunIdToActionId
    /\ Len(emitted) = 2

----------------------------------------------------------------------------
(* Tool events: arguments, result, display name; node labels *)

\* event.data?.input of handled[k]
InputOf(k) == IF handled[k].data.defined THEN handled[k].data.input ELSE NoValue

\* the args string the tool-start rule asks for
ExpectedArgs(v) ==
    CASE v.kind = "string" -> v.str
      [] v.kind = "object" /\ HasStringInputField(v) -> StringInputField(v)
      [] v.kind = "object" /\ ~HasStringInputField(v) -> JSONStringifyObject(v).text
      [] OTHER -> ""

\* C31: the args of the ActionExecutionArgs emitted by on_tool_start is the
\* input itself when it is a string, the input's 'input' field when that is
\* a string, the JSON text of the whole object otherwise, and the empty
\* string when the input is absent or cannot be serialized; in every case
\* ActionExecutionStart and ActionExecutionArgs are emitted and no RunError
C31_ToolStartArgs ==
    \A k \in HandledIdx :
        handled[k].event = "on_tool_start"
            => /\ ~raised[k]
               /\ \E i \in EmittedIdx :
                     /\ OutOf(k) = {i, i + 1}
                     /\ IsType(i, "ActionExecutionStart")
                     /\ IsType(i + 1, "ActionExecutionArgs")
                     /\ emitted[i + 1].args = ExpectedArgs(InputOf(k))

\* three tool starts, with an object, an unserializable and a string input,
\* have emitted their Start and Args
C31_Witness ==
    /\ Len(handled) = 3
    /\ \A k \in 1..3 : handled[k].event = "on_tool_start"
    /\ InputOf(1).kind = "object"
    /\ InputOf(2).kind = "cyclic"
    /\ InputOf(3).kind = "string"
    /\ Len(emitted) = 6
    /\ emitted[2].args = "{\"city\":\"NY\"}"
    /\ emitted[4].args = ""
    /\ emitted[6].args = "NY"

\* toolMessage?.content of handled[k]
OutputContentOf(k) ==
    IF handled[k].data.defined THEN MsgContent(handled[k].data.output) ELSE NoContent

\* the result string the tool-end rule asks for (nothing to extract gives
\* the empty string)
ExpectedResult(c) ==
    CASE c.kind = "string" -> c.str
      [] c.kind = "array" -> JSONStringifyContent(c).text
      [] OTHER -> ""

ExpectedName(e, st) ==
    IF Truthy(e.name) THEN e.name
    ELSE IF Truthy(st.currentNodeName) THEN st.currentNodeName
    ELSE "tool"

\* C33: the actionName emitted for on_tool_start (ActionExecutionStart) and
\* for on_tool_end (ActionExecutionResult) is the event's name when present,
\* otherwise the current node label of the Run State, otherwise "tool"
C33_DisplayName ==
    \A i \in EmittedIdx :
        \/ IsType(i, "ActionExecutionStart") /\ Source(i).event = "on_tool_start"
        \/ IsType(i, "ActionExecutionResult") /\ Source(i).event = "on_tool_end"
        => emitted[i].actionName = ExpectedName(Source(i), before[origin[i]])

\* a nameless tool start before any node label, then the node label, then
\* a nameless tool end: "tool", then the label
C33_Witness ==
    /\ Len(handled) = 3
    /\ handled[1].event = "on_tool_start" /\ handled[1].name = UNDEFINED
    /\ handled[2].event = "on_chain_start"
    /\ handled[3].event = "on_tool_end" /\ handled[3].name = UNDEFINED
    /\ Len(emitted) = 4
    /\ IsType(1, "ActionExecutionStart")
    /\ emitted[1].actionName = "tool"
    /\ IsType(4, "ActionExecutionResult")
    /\ emitted[4].actionName = "agent"

\* C34: on_chain_start sets currentNodeName to the event's langgraph_node
\* exactly when that label is present and is not the START sentinel, and
\* leaves it unchanged otherwise; in both cases nothing is emitted and no
\* other Run State field changes
C34_ChainStartRecordsNode ==
    \A k \in HandledIdx :
        handled[k].event = "on_chain_start"
            => /\ OutOf(k) = {}
               /\ ~raised[k]
               /\ After(k) =
                     [before[k] EXCEPT !.currentNodeName =
                         IF handled[k].langgraph_node \notin {UNDEFINED, "", START}
                         THEN handled[k].langgraph_node
                         ELSE @]

\* a label was recorded (with a correlation entry already in the map), the
\* sentinel left it alone, another label replaced it
C34_Witness ==
    /\ Len(handled) = 3
    /\ handled[1].event = "on_tool_start"
    /\ handled[2].event = "on_chain_start" /\ handled[2].langgraph_node = "agent"
    /\ handled[3].event = "on_chain_start" /\ handled[3].langgraph_node = START
    /\ streamState.currentNodeName = "agent"
    /\ streamState.toolRunIdToActionId # <<>>

----------------------------------------------------------------------------
(* Run identifier *)

\* C35: the Run State's runId equals the caller-supplied run identifier when
\* one is given and is a freshly generated identifier otherwise, and no
\* handled upstream event ever changes it, whatever run_id the events carry
C35_RunIdFixed ==
    pc # "start"
        => /\ Truthy(config.runId) => streamState.runId = config.runId
           /\ ~Truthy(config.runId) => streamState.runId = randomUUID(1)
           /\ \A k \in HandledIdx : before[k].runId = streamState.runId

\* a run started without a run identifier has handled two events that carry
\* run_ids of their own
C35_Witness ==
    /\ config.runId = UNDEFINED
    /\ Len(handled) = 2
    /\ Truthy(handled[1].run_id)
    /\ Truthy(handled[2].run_id)
    /\ handled[1].run_id # handled[2].run_id
    /\ streamState.runId = randomUUID(1)

----------------------------------------------------------------------------
(* The mode-based handlers: spans *)

\* positions of the ActionExecutionStart events before emitted[i] whose
\* action span is still open just before emitted[i]
OpenActionStartsBefore(i) ==
    { j \in 1..(i - 1) :
        /\ IsType(j, "ActionExecutionStart")
        /\ ~\E k \in (j + 1)..(i - 1) :
               /\ IsType(k, "ActionExecutionEnd")
               /\ emitted[k].actionExecutionId = emitted[j].actionExecutionId }

\* positions of the TextMessageStart events before emitted[i] whose text
\* span is still open just before emitted[i]
OpenTextStartsBefore(i) ==
    { j \in 1..(i - 1) :
        /\ IsType(j, "TextMessageStart")
        /\ ~\E k \in (j + 1)..(i - 1) :
               /\ IsType(k, "TextMessageEnd")
               /\ emitted[k].messageId = emitted[j].messageId }

\* C36: in the mode-based handler text spans and action spans never overlap
\* in the emitted sequence: no ActionExecutionStart is emitted while a text
\* span is open (a tool start first ends the open text span) and no
\* TextMessageStart is emitted while an action span is open (a content
\* chunk first ends the open action span)
C36_SpansNeverOverlap ==
    \A i \in EmittedIdx :
        /\ IsType(i, "ActionExecutionStart") => OpenTextStartsBefore(i) = {}
        /\ IsType(i, "TextMessageStart") => OpenActionStartsBefore(i) = {}

\* the actionExecutionId of the ActionExecutionStart pushed while handling
\* handled[j], UNDEFINED when none was pushed
StartIdOf(j) ==
    IF \E i \in OutOf(j) : IsType(i, "ActionExecutionStart")
    THEN emitted[CHOOSE i \in OutOf(j) : IsType(i, "ActionExecutionStart")].actionExecutionId
    ELSE UNDEFINED

\* the on_tool_start events handled before handled[k] with its run_id
StartsOfRun(k) ==
    { j \in 1..(k - 1) :
        handled[j].event = "on_tool_start" /\ handled[j].run_id = handled[k].run_id }

\* C37: in the mode-based handler, whatever the interleaving of tool
\* invocations and content chunks, each on_tool_end whose tool was started
\* produces an ActionExecutionEnd and an ActionExecutionResult carrying the
\* actionExecutionId emitted in the ActionExecutionStart of the
\* on_tool_start with the same run_id
C37_ToolEndCarriesStartId ==
    \A k \in HandledIdx :
        (handled[k].event = "on_tool_end" /\ StartsOfRun(k) # {} /\ ~raised[k])
            => \A j \in StartsOfRun(k) :
                  /\ \E i \in OutOf(k) :
                        /\ IsType(i, "ActionExecutionEnd")
                        /\ emitted[i].actionExecutionId = StartIdOf(j)
                  /\ \E i \in OutOf(k) :
                        /\ IsType(i, "ActionExecutionResult")
                        /\ emitted[i].actionExecutionId = StartIdOf(j)

----------------------------------------------------------------------------
(* The token-level handlers: spans and node activity *)

\* C38: in the token-level handler a TextMessageStart is emitted only when
\* no action span is open: every ActionExecutionStart emitted earlier in
\* the run has already been followed by an ActionExecutionEnd with the same
\* actionExecutionId
C38_TextStartsOutsideActionSpans ==
    \A i \in EmittedIdx :
        IsType(i, "TextMessageStart")
            => \A j \in 1..(i - 1) :
                  IsType(j, "ActionExecutionStart")
                      => \E k \in (j + 1)..(i - 1) :
                            /\ IsType(k, "ActionExecutionEnd")
                            /\ emitted[k].actionExecutionId = emitted[j].actionExecutionId

\* the position of the last ActionExecutionStart before emitted[i], 0 if none
LastActionStartBefore(i) ==
    LET starts == { j \in 1..(i - 1) : IsType(j, "ActionExecutionStart") }
    IN  IF starts = {} THEN 0
        ELSE CHOOSE j \in starts : \A j2 \in starts : j2 <= j

\* C39: in the token-level handler the actionExecutionId of every
\* ActionExecutionArgs and ActionExecutionEnd emitted for a streamed tool
\* call equals the actionExecutionId of the ActionExecutionStart that
\* opened that span, whether or not the fragment that opened it carried an
\* identifier of its own
C39_ArgsAndEndCarryStartId ==
    \A i \in EmittedIdx :
        (IsType(i, "ActionExecutionArgs") \/ IsType(i, "ActionExecutionEnd"))
            => /\ LastActionStartBefore(i) # 0
               /\ emitted[i].actionExecutionId
                      = emitted[LastActionStartBefore(i)].actionExecutionId

\* positions of the node activity messages
ActivityMessages == { i \in EmittedIdx : IsType(i, "AgentStateMessage") }

\* C40: in the token-level handler node activity messages are paired: a
\* message marking a node inactive is emitted only after a message marking
\* the same node active, every on_chain_end of a node that was marked
\* active marks it inactive, and the entry and exit sentinels produce
\* neither message
C40_NodeActivityPaired ==
    /\ \A i \in ActivityMessages :
          ~emitted[i].active
              => \E j \in ActivityMessages :
                    j < i /\ emitted[j].active /\ emitted[j].nodeName = emitted[i].nodeName
    /\ \A k \in HandledIdx :
          (/\ handled[k].event = "on_chain_end"
           /\ \E j \in ActivityMessages :
                 /\ origin[j] < k
                 /\ emitted[j].active
                 /\ emitted[j].nodeName = handled[k].langgraph_node)
              => \E i \in OutOf(k) :
                    /\ IsType(i, "AgentStateMessage")
                    /\ ~emitted[i].active
                    /\ emitted[i].nodeName = handled[k].langgraph_node
    /\ \A i \in ActivityMessages : emitted[i].nodeName \notin {START, END}

====
